---- MODULE Spec2Model ----
(***************************************************************************)
(* Model of the PinPoint-video extraction pipeline:                        *)
(*   ExtractSegmentsUseCase.execute and its two worker pools               *)
(*   (src/application/usecases/extract_segments.py),                       *)
(*   YouTubeDataAPIClient.search_multi_strategy                            *)
(*   (src/infrastructure/youtube_data_api.py),                             *)
(*   GeminiLLMClient.generate_search_queries / filter_videos_by_title      *)
(*   (src/infrastructure/gemini_llm_client.py),                            *)
(*   TimeRange / convert_relative_to_absolute (src/domain),                *)
(*   YtdlpVideoExtractor.concat_clips                                      *)
(*   (src/infrastructure/ytdlp_extractor.py).                              *)
(*                                                                         *)
(* Units: times are integers in tenths of a second, confidences are        *)
(* integers in tenths, progress values are exact fractions <<num, den>>.   *)
(***************************************************************************)
EXTENDS Integers, Sequences, FiniteSets, TLC

VARIABLES
    pc,                 \* position of execute
    cfg,                \* ExtractSegmentsConfig of the use case
    events,             \* progress values passed to progress_callback, in order
    calls,              \* number of external calls made so far, per kind
    videos,             \* execute: `videos`
    candidates,         \* execute: `candidates`
    segments,           \* segments of the returned SearchResult
    \* ---- frame of search_multi_strategy
    queries,            \* parameter `queries` (execute: unique_queries)
    call_idx,           \* index of the next (query, strategy) call, 1-based
    seen_video_ids,
    all_videos,
    search_stats,
    search_log,         \* history: the video lists the calls returned, in call order
    first_failed,       \* history: index of the first call that failed, 0 if none
    \* ---- title filter (execute, phase 2.5)
    title_answer,       \* history: the text model's answer in filter_videos_by_title
    relevant_video_ids, \* execute: `relevant_video_ids`
    filtered_videos,    \* execute: `filtered_videos`
    \* ---- frame of _process_videos_parallel
    futures,            \* one record per submitted _process_single_video task
    collect_idx,        \* position of the `for future in futures` loop, 1-based
    p_candidates,       \* local `candidates` of _process_videos_parallel
    counters,           \* success/no_match/no_subtitle/error/processed counts
    \* ---- frame of _refine_with_vlm
    tasks,              \* one record per process_candidate task
    results,            \* `results`: (index, segment) pairs in completion order
    completed_count,    \* `completed_count[0]`
    \* ---- domain value objects and the clip concatenation of the extractor
    tr_call,            \* one TimeRange construction and its with_buffer call
    cancelled,          \* the caller has signalled cancellation
    concat,             \* frame of YtdlpVideoExtractor.concat_clips
    summary_call        \* one call of GeminiLLMClient.generate_integrated_summary

vars == << pc, cfg, events, calls, videos, candidates, segments,
           queries, call_idx, seen_video_ids, all_videos, search_stats, search_log,
           first_failed, title_answer, relevant_video_ids, filtered_videos,
           futures, collect_idx, p_candidates, counters,
           tasks, results, completed_count, tr_call, cancelled, concat,
           summary_call >>

searchFrame  == << queries, call_idx, seen_video_ids, all_videos, search_stats, search_log,
                   first_failed >>
titleFrame   == << title_answer, relevant_video_ids, filtered_videos >>
parFrame     == << futures, collect_idx, p_candidates, counters >>
refineFrame  == << tasks, results, completed_count >>

----------------------------------------------------------------------------
(* Generic helpers *)

Range(s) == { s[i] : i \in 1..Len(s) }

Min(a, b) == IF a <= b THEN a ELSE b
Max(a, b) == IF a >= b THEN a ELSE b

\* s[:n] of Python for n >= 0
Take(s, n) == SubSeq(s, 1, Min(n, Len(s)))

\* [x for x in s if x in S]
RECURSIVE KeepIn(_, _)
KeepIn(s, S) ==
    IF s = << >> THEN << >>
    ELSE IF Head(s) \in S THEN << Head(s) >> \o KeepIn(Tail(s), S)
         ELSE KeepIn(Tail(s), S)

\* list(dict.fromkeys(s)): first occurrences, order kept
RECURSIVE FromKeys(_)
FromKeys(s) ==
    IF s = << >> THEN << >>
    ELSE LET r == FromKeys(SubSeq(s, 1, Len(s) - 1))
             x == s[Len(s)]
         IN IF x \in Range(r) THEN r ELSE Append(r, x)

SeqsUpTo(S, n) == UNION { [1..k -> S] : k \in 0..n }

----------------------------------------------------------------------------
(* Progress values: exact fractions num/den *)

Frac(n, d) == << n, d >>
FracLeq(a, b) == a[1] * b[2] <= b[1] * a[2]
IsOne(a) == a[1] = a[2]

\* execute.update_progress: forwards to progress_callback when one is given
update_progress(evs, p) == IF cfg.progress_callback THEN Append(evs, p) ELSE evs

----------------------------------------------------------------------------
(* Domains of the external inputs *)

VideoIds == { "v1", "v2", "v3" }

\* Video.duration_sec as reported by the videos.list API
duration_sec == [ v \in VideoIds |->
                    CASE v = "v1" -> 1200
                      [] v = "v2" -> 1201
                      [] v = "v3" -> 59 ]

user_query == "q0"

\* Query strings the text model may produce; LongQueries are longer than 20
\* characters and share their first 20 characters.
LongQueries == { "qL1", "qL2" }
Prefix20(q) == IF q \in LongQueries THEN "qL" ELSE q

NoKey == "<missing>"
\* Answers of the model call in generate_search_queries
FanOutResponses ==
    { [kind |-> "api_error"], [kind |-> "not_json"] } \cup
    { [kind |-> "json", optimized |-> o, simplified |-> s] :
         o \in { NoKey, "qL1" }, s \in { NoKey, "qL2" } }

\* search_multi_strategy: `strategies`
strategies == << "relevance", "date", "relevance_recent" >>


----------------------------------------------------------------------------
(* Query fan-out: GeminiLLMClient.generate_search_queries *)

\* The result of a call that raised instead of returning
Raise == [ raised |-> TRUE ]
Return(v) == [ raised |-> FALSE, value |-> v ]

\* data.get(key, user_query)
GetOr(resp, field) == IF resp[field] = NoKey THEN user_query ELSE resp[field]

\* The SearchQueryVariants returned for a model answer, or Raise
generate_search_queries(resp) ==
    CASE resp.kind = "json" ->
            Return([ original   |-> user_query,
                     optimized  |-> GetOr(resp, "optimized"),
                     simplified |-> GetOr(resp, "simplified") ])
      [] resp.kind = "not_json" ->
            Return([ original |-> user_query, optimized |-> user_query,
                     simplified |-> user_query ])
      [] OTHER -> Raise

----------------------------------------------------------------------------
(* Multi-strategy search: YouTubeDataAPIClient *)

\* Answers of the search.list / videos.list pair for one call with this
\* max_results: an HttpError, or the items of videos.list in order.
ApiResponses(max_results) ==
    { [kind |-> "http_error"] } \cup
    { [kind |-> "items", items |-> s] :
         s \in SeqsUpTo(VideoIds, Min(max_results * 2, 50)) }

RECURSIVE DurationFilter(_, _, _)
DurationFilter(items, dmin, dmax) ==
    IF items = << >> THEN << >>
    ELSE IF dmin <= duration_sec[Head(items)] /\ duration_sec[Head(items)] <= dmax
         THEN << Head(items) >> \o DurationFilter(Tail(items), dmin, dmax)
         ELSE DurationFilter(Tail(items), dmin, dmax)

\* _search_single_strategy: the returned video list, or Raise
search_single_strategy(resp, max_results, dmin, dmax) ==
    IF resp.kind = "http_error" THEN Raise
    ELSE Return(Take(DurationFilter(resp.items, dmin, dmax), max_results))

strategy_key(query, name) == << Prefix20(query), query \in LongQueries, name >>

\* Variant: the loop without the seen_video_ids test
RECURSIVE MergeNewNoCheck(_, _, _)
MergeNewNoCheck(seen, all, vids) ==
    IF vids = << >> THEN [ seen |-> seen, all |-> all ]
    ELSE MergeNewNoCheck(seen \cup { Head(vids) }, Append(all, Head(vids)), Tail(vids))

\* the `for video in videos` loop of search_multi_strategy
RECURSIVE MergeNew(_, _, _)
MergeNew(seen, all, vids) ==
    IF vids = << >> THEN [ seen |-> seen, all |-> all ]
    ELSE IF Head(vids) \notin seen
         THEN MergeNew(seen \cup { Head(vids) }, Append(all, Head(vids)), Tail(vids))
         ELSE MergeNew(seen, all, Tail(vids))

SetStat(stats, key, n) ==
    [ k \in (DOMAIN stats) \cup { key } |-> IF k = key THEN n ELSE stats[k] ]

NumCalls == Len(queries) * Len(strategies)

\* Variant: a failed call ends the search
AfterSearchErrorAbort(idx, n) == n + 1

\* the except branch ends the iteration: the loops go on with the next call
AfterSearchError(idx, n) == idx + 1

\* One iteration of the nested query/strategy loops
SearchSingleStrategy ==
    /\ pc = "search"
    /\ call_idx <= NumCalls
    /\ LET query    == queries[((call_idx - 1) \div Len(strategies)) + 1]
           strategy == strategies[((call_idx - 1) % Len(strategies)) + 1]
           key      == strategy_key(query, strategy)
           maxr     == cfg.max_search_results \div 3
       IN \E resp \in ApiResponses(maxr) :
            LET r    == search_single_strategy(resp, maxr, cfg.duration_min_sec,
                                               cfg.duration_max_sec)
                vids == r.value
            IN IF r.raised
               THEN /\ search_stats' = SetStat(search_stats, key, 0)
                    /\ first_failed' = IF first_failed = 0 THEN call_idx
                                        ELSE first_failed
                    /\ call_idx' = AfterSearchError(call_idx, NumCalls)
                    /\ UNCHANGED << seen_video_ids, all_videos, search_log >>
               ELSE LET m == MergeNew(seen_video_ids, all_videos, vids)
                    IN /\ seen_video_ids' = m.seen
                       /\ all_videos' = m.all
                       /\ search_stats' = SetStat(search_stats, key, Len(vids))
                       /\ search_log' = search_log \o vids
                       /\ UNCHANGED first_failed
                       /\ call_idx' = call_idx + 1
    /\ UNCHANGED << pc, cfg, summary_call, tr_call, cancelled, concat,
                    titleFrame, events, calls, videos, candidates, segments, queries,
                    parFrame, refineFrame >>

EmptyStats == [ k \in { } |-> 0 ]

\* execute, phase 1 up to the call of search_multi_strategy
GenerateSearchQueries ==
    /\ pc = "start"
    /\ \E resp \in FanOutResponses :
         LET r   == generate_search_queries(resp)
             qv  == r.value
             ev1 == update_progress(events, Frac(5, 100))
         IN IF r.raised
            THEN /\ pc' = "raised"
                 /\ events' = ev1
                 /\ UNCHANGED queries
            ELSE LET unique_queries ==
                         FromKeys(<< qv.original, qv.optimized, qv.simplified >>)
                 IN /\ pc' = "search"
                    /\ events' = update_progress(update_progress(ev1, Frac(8, 100)),
                                                 Frac(10, 100))
                    /\ queries' = unique_queries
    /\ calls' = [ calls EXCEPT !.fanout = @ + 1 ]
    /\ UNCHANGED << cfg, summary_call, tr_call, cancelled, concat,
                    titleFrame, videos, candidates, segments, call_idx, seen_video_ids,
                    all_videos, search_stats, search_log, first_failed, parFrame,
                    refineFrame >>

\* Variant: the early returns are missing
IsEmptyListNever(xs) == FALSE

\* `if not videos:` / `if not candidates:` of execute
IsEmptyList(xs) == xs = << >>

\* search_multi_strategy returns; execute up to the title filter call
SearchReturn ==
    /\ pc = "search"
    /\ call_idx > NumCalls
    /\ videos' = all_videos
    /\ LET ev1 == update_progress(events, Frac(20, 100))
       IN IF IsEmptyList(all_videos)
          THEN /\ events' = update_progress(ev1, Frac(1, 1))
               /\ segments' = << >>
               /\ pc' = "done"
          ELSE /\ events' = update_progress(ev1, Frac(22, 100))
               /\ UNCHANGED segments
               /\ pc' = "title"
    /\ queries' = << >>
    /\ call_idx' = 1
    /\ seen_video_ids' = { }
    /\ all_videos' = << >>
    /\ search_stats' = EmptyStats
    /\ search_log' = << >>
    /\ first_failed' = 0
    /\ UNCHANGED << cfg, summary_call, tr_call, cancelled, concat,
                    titleFrame, calls, candidates, parFrame, refineFrame >>


----------------------------------------------------------------------------
(* Title filter: GeminiLLMClient.filter_videos_by_title *)

UnknownId == "vX"

\* longest relevant_video_ids list the text model answers with
MaxAnswerLen == 4

\* Answers of the model call in filter_videos_by_title
TitleResponses(video_titles) ==
    { [kind |-> "api_error"], [kind |-> "not_json"] } \cup
    { [kind |-> "json", relevant_video_ids |-> s] :
         s \in SeqsUpTo(Range(video_titles) \cup { UnknownId }, MaxAnswerLen) }

\* Variant: ids that are not among the inputs are kept
filter_videos_by_titleNoValidCheck(video_titles, resp, max_results) ==
    IF video_titles = << >> THEN << >>
    ELSE IF resp.kind = "json"
         THEN Take(resp.relevant_video_ids, max_results)
         ELSE Take(video_titles, max_results)

\* The id list returned for video_titles (ids in order) and a model answer
filter_videos_by_title(video_titles, resp, max_results) ==
    IF video_titles = << >> THEN << >>
    ELSE IF resp.kind = "json"
         THEN Take(KeepIn(resp.relevant_video_ids, Range(video_titles)), max_results)
         ELSE Take(video_titles, max_results)

\* One queued _process_single_video task per video
NewFuture(v) ==
    [ video |-> v, state |-> "queued", raised |-> FALSE, msg_subtitle |-> FALSE,
      result |-> << >>, subtitle_data |-> FALSE,
      fetch_calls |-> 0, rank_calls |-> 0, urlfb_calls |-> 0, sink_calls |-> 0,
      sink_raised |-> FALSE,
      fetched |-> "pending", ranges |-> << >>, outcome |-> "pending" ]

ZeroCounters ==
    [ processed |-> 0, success |-> 0, no_match |-> 0, no_subtitle |-> 0,
      errors |-> 0 ]

NoTitleAnswer == [ kind |-> "none" ]

\* Variant: an empty selection is passed on as it is
ApplyTitleFilterNoSubstitute(vs, ids, max_title_filter) == KeepIn(vs, Range(ids))

\* filtered_videos of execute: the selected videos in search order, or the
\* first max_title_filter videos when none is selected
ApplyTitleFilter(vs, ids, max_title_filter) ==
    LET kept == KeepIn(vs, Range(ids))
    IN IF kept = << >> THEN Take(vs, max_title_filter) ELSE kept

\* execute, phase 2.5: the title filter call and its application
FilterVideosByTitle ==
    /\ pc = "title"
    /\ \E resp \in TitleResponses(videos) :
         LET max_title_filter == Min(10, cfg.max_search_results)
             ids              == filter_videos_by_title(videos, resp, max_title_filter)
         IN /\ title_answer' = resp
            /\ relevant_video_ids' = ids
            /\ filtered_videos' = ApplyTitleFilter(videos, ids, max_title_filter)
    /\ events' = update_progress(events, Frac(24, 100))
    /\ calls' = [ calls EXCEPT !.title = @ + 1 ]
    /\ pc' = "title_filtered"
    /\ UNCHANGED << cfg, summary_call, tr_call, cancelled, concat,
                    videos, candidates, segments, searchFrame, parFrame,
                    refineFrame >>

\* execute, `videos = filtered_videos` up to the submission of the
\* transcript-stage tasks
SubmitVideoTasks ==
    /\ pc = "title_filtered"
    /\ videos' = filtered_videos
    /\ futures' = [ k \in 1..Len(filtered_videos) |-> NewFuture(filtered_videos[k]) ]
    /\ events' = update_progress(events, Frac(25, 100))
    /\ collect_idx' = 1
    /\ p_candidates' = << >>
    /\ counters' = ZeroCounters
    /\ title_answer' = NoTitleAnswer
    /\ relevant_video_ids' = << >>
    /\ filtered_videos' = << >>
    /\ pc' = "transcript"
    /\ UNCHANGED << cfg, summary_call, tr_call, cancelled, concat,
                    calls, candidates, segments, searchFrame, refineFrame >>


----------------------------------------------------------------------------
(* Time ranges: src/domain/entities.py, src/domain/time_utils.py *)

\* TimeRange.__post_init__: TRUE when construction succeeds
\* Variant: an empty range (end_sec = start_sec) is accepted
TimeRangeValidAllowEmpty(start_sec, end_sec) == ~(start_sec < 0) /\ ~(end_sec < start_sec)

TimeRangeValid(start_sec, end_sec) == ~(start_sec < 0) /\ ~(end_sec <= start_sec)

TimeRange(start_sec, end_sec) == [ start_sec |-> start_sec, end_sec |-> end_sec ]

TimeRangeDuration(tr) == tr.end_sec - tr.start_sec

\* Variant: the start is not clamped at zero
with_bufferNoClamp(tr, buffer_ratio) ==
    LET buffer_sec == (TimeRangeDuration(tr) * buffer_ratio) \div 100
        new_start  == tr.start_sec - buffer_sec
        new_end    == tr.end_sec + buffer_sec
    IN TimeRange(new_start, new_end)

\* TimeRange.with_buffer; buffer_ratio is given in percent (the ranges of the
\* model have durations for which duration * ratio is a whole number of tenths)
with_buffer(tr, buffer_ratio) ==
    LET buffer_sec == (TimeRangeDuration(tr) * buffer_ratio) \div 100
        new_start  == Max(0, tr.start_sec - buffer_sec)
        new_end    == tr.end_sec + buffer_sec
    IN TimeRange(new_start, new_end)

\* Variant: the clip-relative range is returned as it is
convert_relative_to_absoluteNoOffset(clip_start_sec, relative_range) ==
    TimeRange(relative_range.start_sec, relative_range.end_sec)

convert_relative_to_absolute(clip_start_sec, relative_range) ==
    TimeRange(clip_start_sec + relative_range.start_sec,
              clip_start_sec + relative_range.end_sec)

----------------------------------------------------------------------------
(* The TimeRange value object on its own: one construction from arbitrary  *)
(* arguments, then one with_buffer call on the object that was built       *)

MaxTimeSec == 4

TimeGrid == { 10 * i : i \in (-1)..MaxTimeSec }

BufferRatios == { 10, 20, 50, 100 }        \* percent: ratios in (0, 1]

\* TimeRange(start_sec=..., end_sec=...): the dataclass constructor runs
\* __post_init__, which raises ValueError on an invalid pair
MakeTimeRange(start_sec, end_sec) ==
    IF TimeRangeValid(start_sec, end_sec)
    THEN Return(TimeRange(start_sec, end_sec))
    ELSE Raise

NoTimeCall ==
    [ state |-> "none", start_sec |-> 0, end_sec |-> 0, buffer_ratio |-> 0,
      made |-> Raise, buffered |-> Raise ]

ConstructTimeRange ==
    /\ tr_call.state = "args"
    /\ tr_call' = [ tr_call EXCEPT !.state = "made",
                                   !.made = MakeTimeRange(tr_call.start_sec,
                                                          tr_call.end_sec) ]
    /\ UNCHANGED << pc, cfg, summary_call, events, calls, videos, candidates, segments, searchFrame,
                    titleFrame, parFrame, refineFrame, cancelled, concat >>

\* with_buffer builds its result with the same constructor
WithBuffer ==
    /\ tr_call.state = "made"
    /\ ~tr_call.made.raised
    /\ LET b == with_buffer(tr_call.made.value, tr_call.buffer_ratio)
       IN tr_call' = [ tr_call EXCEPT !.state = "buffered",
                                      !.buffered = MakeTimeRange(b.start_sec,
                                                                 b.end_sec) ]
    /\ UNCHANGED << pc, cfg, summary_call, events, calls, videos, candidates, segments, searchFrame,
                    titleFrame, parFrame, refineFrame, cancelled, concat >>

----------------------------------------------------------------------------
(* Transcript stage: _process_videos_parallel, _process_single_video *)

RawSeg(s, e, c, t) == [ start_sec |-> s, end_sec |-> e, confidence |-> c, summary |-> t ]

segA == RawSeg(200, 500, 9, "sA")
segB == RawSeg(0, 100, 3, "sB")
segC == RawSeg(600, 700, 2, "sC")
segD == RawSeg(50, 50, 9, "sD")      \* not a valid TimeRange

\* Answers of the model call in find_relevant_ranges / analyze_youtube_video
RangeResponses ==
    { [kind |-> "api_error"], [kind |-> "not_json"] } \cup
    { [kind |-> "json", segments |-> s] :
         s \in { << >>, << segA >>, << segB, segA >>, << segC >>, << segD, segA >> } }

FetchResponses == { "subtitle", "none", "raise" }

\* Videos whose external calls all succeed with one answer: the subtitle is
\* there, the text model names segA, the clip is extracted, the video model
\* answers, the sinks return. They fill the pools beyond their size.
QuietVideos == { "v4", "v5", "v6", "v7", "v8", "v9" }

FetchResponsesOf(video) ==
    IF video \in QuietVideos THEN { "subtitle" } ELSE FetchResponses

\* what subtitle_callback does when it is called: it returns or it raises
SubtitleSinkResponsesOf(video) ==
    IF video \in QuietVideos THEN { "ok" } ELSE { "ok", "raise" }

RangeResponsesOf(video) ==
    IF video \in QuietVideos THEN { [kind |-> "json", segments |-> << segA >>] }
    ELSE RangeResponses

RangeTuple(seg) ==
    [ time_range |-> TimeRange(seg.start_sec, seg.end_sec),
      confidence |-> seg.confidence, summary |-> seg.summary ]

RECURSIVE MapTuples(_)
MapTuples(segs) ==
    IF segs = << >> THEN << >>
    ELSE << RangeTuple(Head(segs)) >> \o MapTuples(Tail(segs))

RECURSIVE ValidSegs(_)
ValidSegs(segs) ==
    IF segs = << >> THEN << >>
    ELSE IF Head(segs).start_sec >= Head(segs).end_sec \/ Head(segs).start_sec < 0
         THEN ValidSegs(Tail(segs))
         ELSE << Head(segs) >> \o ValidSegs(Tail(segs))

\* GeminiLLMClient.find_relevant_ranges: an invalid range makes the call raise
find_relevant_ranges(resp) ==
    IF resp.kind # "json" THEN Raise
    ELSE IF \E i \in 1..Len(resp.segments) :
               ~TimeRangeValid(resp.segments[i].start_sec, resp.segments[i].end_sec)
         THEN Raise
         ELSE Return(MapTuples(resp.segments))

\* GeminiLLMClient.analyze_youtube_video: invalid ranges are skipped
analyze_youtube_video(resp) ==
    IF resp.kind # "json" THEN Raise
    ELSE Return(MapTuples(ValidSegs(resp.segments)))

Candidate(video, t) ==
    [ video |-> video, time_range |-> t.time_range,
      confidence |-> t.confidence, summary |-> t.summary ]

\* Variant: the threshold is exclusive
RECURSIVE ConfidenceFilterStrict(_, _, _)
ConfidenceFilterStrict(video, ranges, min_confidence) ==
    IF ranges = << >> THEN << >>
    ELSE IF Head(ranges).confidence > min_confidence
         THEN << Candidate(video, Head(ranges)) >>
                 \o ConfidenceFilterStrict(video, Tail(ranges), min_confidence)
         ELSE ConfidenceFilterStrict(video, Tail(ranges), min_confidence)

\* the confidence filter of both paths
RECURSIVE ConfidenceFilter(_, _, _)
ConfidenceFilter(video, ranges, min_confidence) ==
    IF ranges = << >> THEN << >>
    ELSE IF Head(ranges).confidence >= min_confidence
         THEN << Candidate(video, Head(ranges)) >>
                 \o ConfidenceFilter(video, Tail(ranges), min_confidence)
         ELSE ConfidenceFilter(video, Tail(ranges), min_confidence)

\* Variant: the duration cap is strict
should_use_youtube_url_fallbackStrict(video) ==
    IF ~cfg.enable_youtube_url_fallback THEN FALSE
    ELSE IF duration_sec[video] >= cfg.youtube_url_fallback_max_duration THEN FALSE
    ELSE TRUE

should_use_youtube_url_fallback(video) ==
    IF ~cfg.enable_youtube_url_fallback THEN FALSE
    ELSE IF duration_sec[video] > cfg.youtube_url_fallback_max_duration THEN FALSE
    ELSE TRUE

\* _process_with_youtube_url_fallback: (results, None), never raises
process_with_youtube_url_fallback(video, resp) ==
    LET r == analyze_youtube_video(resp)
    IN IF r.raised THEN [ raised |-> FALSE, result |-> << >>, subtitle_data |-> FALSE ]
       ELSE [ raised |-> FALSE,
              result |-> ConfidenceFilter(video, r.value, cfg.min_confidence),
              subtitle_data |-> FALSE ]

\* _process_single_video for one fetch outcome and one model answer
process_single_video(video, fetched, resp) ==
    CASE fetched = "raise" ->
            [ raised |-> TRUE, result |-> << >>, subtitle_data |-> FALSE ]
      [] fetched = "none" ->
            IF should_use_youtube_url_fallback(video)
            THEN process_with_youtube_url_fallback(video, resp)
            ELSE [ raised |-> FALSE, result |-> << >>, subtitle_data |-> FALSE ]
      [] OTHER ->
            LET r == find_relevant_ranges(resp)
            IN IF r.raised
               THEN [ raised |-> TRUE, result |-> << >>, subtitle_data |-> FALSE ]
               ELSE [ raised |-> FALSE,
                      result |-> ConfidenceFilter(video, r.value, cfg.min_confidence),
                      subtitle_data |-> TRUE ]

\* ThreadPoolExecutor(max_workers=5)
transcript_max_workers == 5

Running(fs) == { k \in 1..Len(fs) : fs[k].state = "running" }

\* Variant: one task more than the pool has threads
PoolHasIdleWorkerOffByOne(busy, max_workers) == busy <= max_workers

\* ThreadPoolExecutor starts a queued task only on a thread that runs none
PoolHasIdleWorker(busy, max_workers) == busy < max_workers

\* A pool thread takes the next submitted task from the queue
StartVideoTask(k) ==
    /\ pc = "transcript"
    /\ futures[k].state = "queued"
    /\ \A j \in 1..(k - 1) : futures[j].state # "queued"
    /\ PoolHasIdleWorker(Cardinality(Running(futures)), transcript_max_workers)
    /\ futures' = [ futures EXCEPT ![k].state = "running" ]
    /\ UNCHANGED << pc, cfg, summary_call, tr_call, cancelled, concat,
                    titleFrame, events, calls, videos, candidates, segments,
                    searchFrame, collect_idx, p_candidates, counters, refineFrame >>

\* A pool thread runs _process_single_video to its end
ProcessSingleVideo(k) ==
    /\ pc = "transcript"
    /\ futures[k].state = "running"
    /\ \E fetched \in FetchResponsesOf(futures[k].video),
          resp \in RangeResponsesOf(futures[k].video), ms \in BOOLEAN :
         LET video == futures[k].video
             r     == process_single_video(video, fetched, resp)
             fb    == fetched = "none" /\ should_use_youtube_url_fallback(video)
             \* what the text-model call of this task returned, if it returned
             rr    == IF fetched = "subtitle" THEN find_relevant_ranges(resp)
                      ELSE IF fb THEN analyze_youtube_video(resp)
                      ELSE Raise
         IN /\ futures' = [ futures EXCEPT ![k] =
                              [ @ EXCEPT !.state = "done",
                                         !.raised = r.raised,
                                         !.msg_subtitle = r.raised /\ ms,
                                         !.result = r.result,
                                         !.subtitle_data = r.subtitle_data,
                                         !.fetched = fetched,
                                         !.ranges = IF rr.raised THEN << >>
                                                    ELSE rr.value,
                                         !.fetch_calls = @ + 1,
                                         !.rank_calls = @ + (IF fetched = "subtitle"
                                                             THEN 1 ELSE 0),
                                         !.urlfb_calls = @ + (IF fb THEN 1 ELSE 0) ] ]
            /\ calls' = [ calls EXCEPT !.fetch = @ + 1 ]
    /\ UNCHANGED << pc, cfg, summary_call, tr_call, cancelled, concat,
                    titleFrame, events, videos, candidates, segments,
                    searchFrame, collect_idx, p_candidates, counters, refineFrame >>

\* Variant: the transcript stage advances progress up to 0.55
TranscriptProgressWide(evs, processed, total) ==
    IF processed % 10 = 0 \/ processed = total
    THEN update_progress(evs, Frac(25 * total + 30 * processed, 100 * total))
    ELSE evs

\* the progress update at the end of one iteration of the collecting loop
TranscriptProgress(evs, processed, total) ==
    IF processed % 10 = 0 \/ processed = total
    THEN update_progress(evs, Frac(25 * total + 20 * processed, 100 * total))
    ELSE evs

\* Variant: the first failed worker ends the collecting loop
AfterWorkerErrorBreak(idx, total) == total + 1

\* `continue` of the except branch: the loop goes on with the next future
AfterWorkerError(idx, total) == idx + 1

\* Variant: a failure of the subtitle sink discards what the video contributed
AfterSubtitleSinkDiscard(result, sink_raised) ==
    IF sink_raised THEN << >> ELSE result

\* the try/except around subtitle_callback: the exception is logged and the
\* iteration goes on with the result it was given
AfterSubtitleSink(result, sink_raised) == result

\* Variant: the loop takes the futures as they complete
NextFutureAsCompleted(fs, idx) ==
    LET pending == { k \in 1..Len(fs) : fs[k].outcome = "pending" }
        ready   == { k \in pending : fs[k].state = "done" }
        from    == IF ready # { } THEN ready ELSE pending
    IN CHOOSE k \in from : \A j \in from : k <= j

\* `for future in futures`: the dict is iterated in insertion order, which is
\* the order of submission
NextFuture(fs, idx) == idx

\* One iteration of `for future in futures`: future.result(timeout=120)
\* returns, re-raises the task's exception, or times out on an unfinished task
CollectFuture ==
    /\ pc = "transcript"
    /\ collect_idx <= Len(futures)
    /\ LET i     == NextFuture(futures, collect_idx)
           f     == futures[i]
           total == Len(futures)
           n     == counters.processed + 1
       IN IF f.state = "done" /\ ~f.raised
          THEN /\ \E sink \in SubtitleSinkResponsesOf(f.video) :
                    LET called == f.subtitle_data /\ cfg.subtitle_callback
                        failed == called /\ sink = "raise"
                    IN /\ futures' = [ futures EXCEPT
                                        ![i].sink_calls = @ + (IF called THEN 1 ELSE 0),
                                        ![i].sink_raised = failed,
                                        ![i].outcome = "returned" ]
                       /\ p_candidates' =
                             p_candidates \o AfterSubtitleSink(f.result, failed)
               /\ counters' = [ counters EXCEPT
                                  !.processed = n,
                                  !.success   = @ + (IF f.result # << >> THEN 1 ELSE 0),
                                  !.no_match  = @ + (IF f.result = << >> THEN 1 ELSE 0) ]
               /\ events' = TranscriptProgress(events, n, total)
               /\ collect_idx' = collect_idx + 1
          ELSE /\ futures' = [ futures EXCEPT ![i].outcome =
                                IF f.state = "done" THEN "raised" ELSE "timeout" ]
               /\ collect_idx' = AfterWorkerError(collect_idx, total)
               /\ counters' = [ counters EXCEPT
                                  !.processed   = n,
                                  !.errors      = @ + 1,
                                  !.no_subtitle = @ + (IF f.state = "done" /\ f.msg_subtitle
                                                       THEN 1 ELSE 0) ]
               /\ UNCHANGED << p_candidates, events >>
    /\ UNCHANGED << pc, cfg, summary_call, tr_call, cancelled, concat,
                    titleFrame, calls, videos, candidates, segments, searchFrame,
                    refineFrame >>


----------------------------------------------------------------------------
(* Refinement stage: _refine_with_vlm and its nested process_candidate *)

refine_pool_limit == 3      \* max_workers = min(3, total)
stagger_delay == 30         \* 3.0 s
max_retries == 3
retry_delay == 20           \* 2.0 s
degraded_confidence == 5    \* 0.5
RefinementFailed == "refinement failed"     \* the fixed summary of a degraded segment

VideoSegment(video, time_range, summary, confidence) ==
    [ video |-> video, time_range |-> time_range, summary |-> summary,
      confidence |-> confidence ]

NoSegment == VideoSegment("", TimeRange(0, 0), "", 0 - 1)

\* Outcomes of VLMClient.analyze_video_clip for a clip of this video: it
\* raises, or returns (relative_range, confidence, summary) with a valid
\* relative TimeRange
VlmResponses(video) ==
    LET ok == [kind |-> "ok",
               relative_range |-> IF video = "v1" THEN TimeRange(20, 80)
                                  ELSE TimeRange(0, 35),
               confidence |-> 9, summary |-> "vA"]
    IN IF video \in QuietVideos THEN { ok } ELSE { [kind |-> "error"], ok }

ExtractResponses == { "ok", "error" }
SinkResponses == { "ok", "raise" }

ExtractResponsesOf(video) ==
    IF video \in QuietVideos THEN { "ok" } ELSE ExtractResponses

SinkResponsesOf(video) ==
    IF video \in QuietVideos THEN { "ok" } ELSE SinkResponses

NewTask(i, c) ==
    [ index |-> i, video |-> c.video, estimated_range |-> c.time_range,
      state |-> "queued", attempt |-> 0, clip_path |-> "none",
      extract_calls |-> 0, extract_failed |-> FALSE,
      vlm_calls |-> 0, vlm_ok |-> FALSE, vlm_answer |-> [kind |-> "error"],
      sleeps |-> << >>, sink_calls |-> 0, sink_raised |-> FALSE,
      sink_saw |-> "none", sink_video |-> "none",
      segment |-> NoSegment ]

\* Variant: a worker is not given back to the pool when its task returns
AdmittedNeverReleased(ts) == { k \in 1..Len(ts) : ts[k].state # "queued" }

\* the tasks a pool thread is running
Admitted(ts) == { k \in 1..Len(ts) : ts[k].state \in { "extracting", "analyzing", "finally" } }

\* the value passed to update_progress when a task completes
RefineProgress(completed, total) == Frac(60 * total + 35 * completed, 100 * total)

\* Variant: only a refined task is counted
CountCompletedOnSuccess(completed, refined) ==
    IF refined THEN completed + 1 ELSE completed

\* `completed_count[0] += 1` under results_lock, after a refined segment
\* (line 710) and in the handler (line 748)
CountCompleted(completed, refined) == completed + 1

\* Variant: the degraded segment takes the buffered fetch window
DegradeBuffered(t) ==
    [ t EXCEPT !.segment = VideoSegment(t.video,
                               with_buffer(t.estimated_range, cfg.buffer_ratio),
                               RefinementFailed, degraded_confidence),
               !.state = "finally" ]

\* the `except Exception` handler of process_candidate (lines 736-765)
Degrade(t) ==
    [ t EXCEPT !.segment = VideoSegment(t.video, t.estimated_range, RefinementFailed,
                                        degraded_confidence),
               !.state = "finally" ]

\* A pool thread takes the next task; the task sleeps index * stagger_delay
StartCandidate(k) ==
    /\ pc = "refine"
    /\ tasks[k].state = "queued"
    /\ \A j \in 1..(k - 1) : tasks[j].state # "queued"
    /\ PoolHasIdleWorker(Cardinality(Admitted(tasks)),
                         Min(refine_pool_limit, Len(tasks)))
    /\ tasks' = [ tasks EXCEPT ![k].state = "extracting",
                               ![k].sleeps = IF tasks[k].index > 0
                                             THEN << tasks[k].index * stagger_delay >>
                                             ELSE << >> ]
    /\ UNCHANGED << pc, cfg, summary_call, tr_call, cancelled, concat,
                    titleFrame, events, calls, videos, candidates, segments,
                    searchFrame, parFrame, results, completed_count >>

\* Variant: a failed extraction is logged and the task goes on to the analysis
OnExtractErrorIgnored(t) == [ t EXCEPT !.extract_failed = TRUE, !.state = "analyzing" ]

\* extract_clip raised: control leaves the try block for the handler,
\* the retry loop is never entered
OnExtractError(t) == Degrade([ t EXCEPT !.extract_failed = TRUE ])

\* with_buffer, the temporary file and the extract_clip call
ExtractClip(k) ==
    /\ pc = "refine"
    /\ tasks[k].state = "extracting"
    /\ \E resp \in ExtractResponsesOf(tasks[k].video) :
         LET t == [ tasks[k] EXCEPT !.clip_path = "exists",
                                    !.extract_calls = @ + 1 ]
         IN IF resp = "ok"
            THEN /\ tasks' = [ tasks EXCEPT ![k] = [ t EXCEPT !.state = "analyzing" ] ]
                 /\ UNCHANGED << completed_count, events >>
            ELSE /\ tasks' = [ tasks EXCEPT ![k] = OnExtractError(t) ]
                 /\ completed_count' = CountCompleted(completed_count, FALSE)
                 /\ events' = update_progress(events,
                                  RefineProgress(CountCompleted(completed_count, FALSE),
                                                 Len(tasks)))
    /\ UNCHANGED << pc, cfg, summary_call, tr_call, cancelled, concat,
                    titleFrame, calls, videos, candidates, segments,
                    searchFrame, parFrame, results >>

\* Variant: the same pause before every retry
RetrySleepConstant(attempt) == retry_delay

\* `time.sleep(retry_delay * attempt)`
RetrySleep(attempt) == retry_delay * attempt

\* Variant: one attempt too many
MoreAttemptsOffByOne(attempt) == attempt + 1 <= max_retries

\* `for attempt in range(max_retries)`: is there an iteration after this one
MoreAttempts(attempt) == attempt + 1 < max_retries

\* One iteration of `for attempt in range(max_retries)`
AnalyzeClip(k) ==
    /\ pc = "refine"
    /\ tasks[k].state = "analyzing"
    /\ \E resp \in VlmResponses(tasks[k].video) :
         LET attempt == tasks[k].attempt
             t == [ tasks[k] EXCEPT
                      !.sleeps = IF attempt > 0 THEN Append(@, RetrySleep(attempt))
                                 ELSE @,
                      !.vlm_calls = @ + 1 ]
             buffered_range == with_buffer(t.estimated_range, cfg.buffer_ratio)
         IN IF resp.kind = "ok"
            THEN LET absolute_range ==
                         convert_relative_to_absolute(buffered_range.start_sec,
                                                      resp.relative_range)
                 IN /\ tasks' = [ tasks EXCEPT ![k] =
                                   [ t EXCEPT !.vlm_ok = TRUE,
                                              !.vlm_answer = resp,
                                              !.segment = VideoSegment(t.video,
                                                  absolute_range, resp.summary,
                                                  resp.confidence),
                                              !.state = "finally" ] ]
                    /\ completed_count' = CountCompleted(completed_count, TRUE)
                    /\ events' = update_progress(events,
                                     RefineProgress(CountCompleted(completed_count, TRUE),
                                                    Len(tasks)))
            ELSE IF MoreAttempts(attempt)
                 THEN /\ tasks' = [ tasks EXCEPT ![k] = [ t EXCEPT !.attempt = @ + 1 ] ]
                      /\ UNCHANGED << completed_count, events >>
                 ELSE /\ tasks' = [ tasks EXCEPT ![k] = Degrade(t) ]
                      /\ completed_count' = CountCompleted(completed_count, FALSE)
                      /\ events' = update_progress(events,
                                       RefineProgress(CountCompleted(completed_count, FALSE),
                                                      Len(tasks)))
    /\ UNCHANGED << pc, cfg, summary_call, tr_call, cancelled, concat,
                    titleFrame, calls, videos, candidates, segments,
                    searchFrame, parFrame, results >>

\* `if clip_path and clip_save_callback:` the sink gets (video_id, clip_path);
\* what it raises is logged. sink_saw records the state of the file it is given
CallSink(t, resp) ==
    LET called == t.clip_path # "none" /\ cfg.clip_save_callback
    IN [ t EXCEPT !.sink_calls = @ + (IF called THEN 1 ELSE 0),
                  !.sink_raised = called /\ resp = "raise",
                  !.sink_saw = IF called THEN t.clip_path ELSE @,
                  !.sink_video = IF called THEN t.video ELSE @ ]

\* Variant: an exception of the sink leaves the clause before the unlink
UnlinkUnlessSinkRaised(t) ==
    IF t.sink_raised THEN t
    ELSE [ t EXCEPT !.clip_path = IF @ = "exists" THEN "deleted" ELSE @ ]

\* `if clip_path: Path(clip_path).unlink()`
Unlink(t) == [ t EXCEPT !.clip_path = IF @ = "exists" THEN "deleted" ELSE @ ]

\* Variant: the file is removed before the sink is called
FinallyBodyUnlinkFirst(t, resp) == CallSink(Unlink(t), resp)

\* the two statements of the `finally` clause, in their order
FinallyBody(t, resp) == Unlink(CallSink(t, resp))

\* The `finally` clause: clip-save callback, then the temporary file is removed
FinallyClause(k) ==
    /\ pc = "refine"
    /\ tasks[k].state = "finally"
    /\ \E resp \in SinkResponsesOf(tasks[k].video) :
         tasks' = [ tasks EXCEPT
                      ![k] = [ FinallyBody(tasks[k], resp) EXCEPT !.state = "returned" ] ]
    /\ UNCHANGED << pc, cfg, summary_call, tr_call, cancelled, concat,
                    titleFrame, events, calls, videos, candidates, segments,
                    searchFrame, parFrame, results, completed_count >>

\* Variant: a failed task re-raises instead of returning a degraded segment,
\* and the collecting loop only logs the error
CollectResultLogError(k) ==
    /\ pc = "refine"
    /\ tasks[k].state = "returned"
    /\ results' = IF tasks[k].vlm_ok
                  THEN Append(results, << tasks[k].index, tasks[k].segment >>)
                  ELSE results
    /\ tasks' = [ tasks EXCEPT ![k].state = "collected" ]
    /\ UNCHANGED << pc, cfg, summary_call, tr_call, cancelled, concat,
                    titleFrame, events, calls, videos, candidates, segments,
                    searchFrame, parFrame, completed_count >>

\* One iteration of `for future in as_completed(futures)`
CollectResult(k) ==
    /\ pc = "refine"
    /\ tasks[k].state = "returned"
    /\ results' = Append(results, << tasks[k].index, tasks[k].segment >>)
    /\ tasks' = [ tasks EXCEPT ![k].state = "collected" ]
    /\ UNCHANGED << pc, cfg, summary_call, tr_call, cancelled, concat,
                    titleFrame, events, calls, videos, candidates, segments,
                    searchFrame, parFrame, completed_count >>

\* Variant: the results are returned in completion order
SortByIndexMissing(rs) == rs

\* results.sort(key=lambda x: x[0]): a stable sort, the element at position j
\* goes where the number of elements ordered before it says
SortByIndex(rs) ==
    [ i \in 1..Len(rs) |->
        rs[CHOOSE j \in 1..Len(rs) :
             Cardinality({ l \in 1..Len(rs) :
                             \/ rs[l][1] < rs[j][1]
                             \/ rs[l][1] = rs[j][1] /\ l <= j }) = i] ]

\* _refine_with_vlm returns; execute emits the final event and returns
RefineReturn ==
    /\ pc = "refine"
    /\ \A k \in 1..Len(tasks) : tasks[k].state = "collected"
    /\ LET sorted == SortByIndex(results)
       IN segments' = [ i \in 1..Len(sorted) |-> sorted[i][2] ]
    /\ events' = update_progress(events, Frac(1, 1))
    /\ pc' = "done"
    /\ UNCHANGED << cfg, summary_call, tr_call, cancelled, concat,
                    titleFrame, calls, videos, candidates, searchFrame, parFrame, refineFrame >>

----------------------------------------------------------------------------
(* execute after the transcript stage (lines 270-378) *)

\* Variant: the candidates stay in collection order
SortedByConfidenceMissing(s) == s

\* sorted(candidates, key=confidence, reverse=True): stable
RECURSIVE SortedByConfidence(_)
SortedByConfidence(s) ==
    IF s = << >> THEN << >>
    ELSE LET r == SortedByConfidence(SubSeq(s, 1, Len(s) - 1))
             x == s[Len(s)]
             n == Cardinality({ i \in 1..Len(r) : r[i].confidence >= x.confidence })
         IN SubSeq(r, 1, n) \o << x >> \o SubSeq(r, n + 1, Len(r))

\* Variant: truncation before sorting
TopCandidatesTruncateFirst(cands) ==
    SortedByConfidence(Take(cands, cfg.max_final_results))

TopCandidates(cands) == Take(SortedByConfidence(cands), cfg.max_final_results)

\* Variant: the configuration flag is not consulted
ShouldRefineIgnoreFlag(cands) == cands # << >>

\* `if self.config.enable_vlm_refinement and candidates:`
ShouldRefine(cands) == cfg.enable_vlm_refinement /\ cands # << >>

\* Variant: the pool is left without waiting for its tasks
ExecutorShutdownNoWait(fs) == TRUE

\* the end of `with ThreadPoolExecutor(...) as executor:` is
\* executor.shutdown(wait=True): every submitted task has finished
ExecutorShutdown(fs) == \A k \in 1..Len(fs) : fs[k].state = "done"

\* _process_videos_parallel returns once the loop is over and the executor has
\* shut down (every task finished); execute runs on to the refinement stage
TranscriptReturn ==
    /\ pc = "transcript"
    /\ collect_idx > Len(futures)
    /\ ExecutorShutdown(futures)
    /\ LET top == TopCandidates(p_candidates)
           ev1 == update_progress(events, Frac(50, 100))
           ev2 == update_progress(ev1, Frac(55, 100))
       IN /\ candidates' = top
          /\ IF IsEmptyList(top)
             THEN /\ events' = update_progress(ev1, Frac(1, 1))
                  /\ segments' = << >>
                  /\ pc' = "done"
                  /\ UNCHANGED refineFrame
             ELSE IF ShouldRefine(top)
             THEN /\ events' = update_progress(update_progress(ev2, Frac(60, 100)),
                                               Frac(60, 100))
                  /\ tasks' = [ i \in 1..Len(top) |-> NewTask(i - 1, top[i]) ]
                  /\ results' = << >>
                  /\ completed_count' = 0
                  /\ pc' = "refine"
                  /\ UNCHANGED segments
             ELSE /\ events' = update_progress(update_progress(ev2, Frac(90, 100)),
                                               Frac(1, 1))
                  /\ segments' = [ i \in 1..Len(top) |->
                                     VideoSegment(top[i].video, top[i].time_range,
                                                  top[i].summary, top[i].confidence) ]
                  /\ pc' = "done"
                  /\ UNCHANGED refineFrame
    /\ futures' = << >>
    /\ collect_idx' = 1
    /\ UNCHANGED << cfg, summary_call, tr_call, cancelled, concat,
                    titleFrame, calls, videos, searchFrame, p_candidates, counters >>

----------------------------------------------------------------------------
(* Specification of one run of execute *)

Configs ==
    { [ max_search_results |-> 3, max_final_results |-> k, buffer_ratio |-> 20,
        min_confidence |-> 3, enable_vlm_refinement |-> vlm,
        duration_min_sec |-> 60, duration_max_sec |-> 7200,
        enable_youtube_url_fallback |-> fb,
        youtube_url_fallback_max_duration |-> 1200,
        progress_callback |-> TRUE, clip_save_callback |-> TRUE,
        subtitle_callback |-> TRUE ] :
      k \in { 1, 2 }, vlm \in BOOLEAN, fb \in BOOLEAN }

ZeroCalls ==
    [ fanout |-> 0, title |-> 0, fetch |-> 0 ]

----------------------------------------------------------------------------
(* GeminiLLMClient.generate_integrated_summary                             *)
(* (src/infrastructure/gemini_llm_client.py)                               *)

SummaryTexts == { "sA", "sB", "sC" }

no_segment_message == << "no matching segment" >>    \* the fixed message

fallback_header == "individual summaries"            \* the fallback headline

\* generate_content returns a text, returns a response without text, or raises
SummaryResponses == { "text", "no_text", "raise" }

\* "\n".join(f"• {seg['summary']}" ...) under the headline, as a list of lines
BulletList(segment_summaries) ==
    << fallback_header >>
       \o [ i \in 1..Len(segment_summaries) |-> << "bullet", segment_summaries[i].summary >> ]

\* Variant: the error of the text model is passed on as LLMError
OnSummaryErrorRaise(segment_summaries) == Raise

\* the `except Exception` branch
OnSummaryError(segment_summaries) == Return(BulletList(segment_summaries))

\* generate_integrated_summary; the second component says whether the model
\* was called
generate_integrated_summary(segment_summaries, resp) ==
    IF segment_summaries = << >>
    THEN << Return(no_segment_message), 0 >>
    ELSE IF resp = "text"
         THEN << Return(<< "model text" >>), 1 >>
         ELSE << OnSummaryError(segment_summaries), 1 >>

NoSummaryCall ==
    [ state |-> "none", segment_summaries |-> << >>, response |-> "none",
      result |-> Raise, model_calls |-> 0 ]

GenerateIntegratedSummary ==
    /\ summary_call.state = "called"
    /\ \E resp \in SummaryResponses :
         LET r == generate_integrated_summary(summary_call.segment_summaries, resp)
         IN summary_call' = [ summary_call EXCEPT
                                !.state = "over",
                                !.response = IF r[2] = 0 THEN "none" ELSE resp,
                                !.result = r[1],
                                !.model_calls = r[2] ]
    /\ UNCHANGED << pc, cfg, events, calls, videos, candidates, segments, searchFrame,
                    titleFrame, parFrame, refineFrame, tr_call, cancelled, concat >>

----------------------------------------------------------------------------
(* YtdlpVideoExtractor.concat_clips and is_valid_mp4                        *)
(* (src/infrastructure/ytdlp_extractor.py)                                 *)

min_mp4_size == 1000        \* bytes: `st_size < 1000` is refused

\* A file of clip_paths: missing, or present with a size and with what
\* ffprobe prints for its first video stream ("error": ffprobe raised)
ClipFiles ==
    { [ exists |-> FALSE, size |-> 0, probe |-> "error" ] } \cup
    { [ exists |-> TRUE, size |-> n, probe |-> pr ] :
         n \in { min_mp4_size - 1, min_mp4_size },
         pr \in { "video", "", "error" } }

\* Variant: the video stream is not probed
is_valid_mp4NoProbe(file) ==
    IF ~file.exists THEN FALSE
    ELSE IF file.size < min_mp4_size THEN FALSE
    ELSE TRUE

is_valid_mp4(file) ==
    IF ~file.exists THEN FALSE
    ELSE IF file.size < min_mp4_size THEN FALSE
    ELSE IF file.probe = "error" THEN FALSE
    ELSE file.probe = "video"

\* `for p in clip_paths: if p.exists() and is_valid_mp4(p, ffprobe_path)`
RECURSIVE valid_clips(_)
valid_clips(clip_paths) ==
    IF clip_paths = << >> THEN << >>
    ELSE IF Head(clip_paths).exists /\ is_valid_mp4(Head(clip_paths))
         THEN << Head(clip_paths) >> \o valid_clips(Tail(clip_paths))
         ELSE valid_clips(Tail(clip_paths))

\* subprocess.run of ffmpeg: return code 0, another return code,
\* TimeoutExpired, or an OSError of the launch
ToolOutcomes == { "ok", "fail", "timeout", "oserror" }

NoOutput == [ kind |-> "none", src |-> 0 ]

NoConcat ==
    [ pc |-> "none", clip_paths |-> << >>, valid |-> << >>, manifest |-> "none",
      manifest_lines |-> << >>, tool_calls |-> << >>, copy_outcome |-> "none",
      output |-> NoOutput, result |-> "pending", raising |-> FALSE ]

concatRest == << pc, cfg, summary_call, events, calls, videos, candidates, segments, searchFrame,
                 titleFrame, parFrame, refineFrame, tr_call, cancelled >>

\* concat_clips up to the first ffmpeg run: the filter, the two early
\* returns, the single-clip copy, the manifest
ConcatClips ==
    /\ concat.pc = "start"
    /\ LET valid == valid_clips(concat.clip_paths)
       IN IF concat.clip_paths = << >> \/ valid = << >>
          THEN concat' = [ concat EXCEPT !.valid = valid, !.result = "False",
                                         !.pc = "returned" ]
          ELSE IF Len(valid) = 1
          THEN concat' = [ concat EXCEPT !.valid = valid,
                                         !.output = [ kind |-> "copied",
                                                      src |-> valid[1].id ],
                                         !.result = "True", !.pc = "returned" ]
          ELSE concat' = [ concat EXCEPT !.valid = valid,
                                         !.manifest = "exists",
                                         !.manifest_lines =
                                             [ i \in 1..Len(valid) |-> valid[i].id ],
                                         !.pc = "copy_run" ]
    /\ UNCHANGED concatRest

\* Variant: a failed stream copy is not retried
NeedsReencodeNever(outcome) == FALSE

\* `if result.returncode != 0:`
NeedsReencode(outcome) == outcome = "fail"

\* the `-c copy` run (timeout 300 s)
RunStreamCopy ==
    /\ concat.pc = "copy_run"
    /\ \E outcome \in ToolOutcomes :
         LET c == [ concat EXCEPT !.tool_calls = Append(@, "copy"),
                                  !.copy_outcome = outcome ]
         IN IF outcome \in { "timeout", "oserror" }
            THEN concat' = [ c EXCEPT !.raising = TRUE, !.pc = "finally" ]
            ELSE IF NeedsReencode(outcome)
            THEN concat' = [ c EXCEPT !.pc = "reencode_run" ]
            ELSE concat' = [ c EXCEPT !.output = [ kind |-> "concatenated", src |-> 0 ],
                                      !.result = "True", !.pc = "finally" ]
    /\ UNCHANGED concatRest

\* the libx264/aac run (check=True, timeout 600 s)
RunReencode ==
    /\ concat.pc = "reencode_run"
    /\ \E outcome \in ToolOutcomes :
         LET c == [ concat EXCEPT !.tool_calls = Append(@, "reencode") ]
         IN IF outcome = "ok"
            THEN concat' = [ c EXCEPT !.output = [ kind |-> "reencoded", src |-> 0 ],
                                      !.result = "True", !.pc = "finally" ]
            ELSE concat' = [ c EXCEPT !.raising = TRUE, !.pc = "finally" ]
    /\ UNCHANGED concatRest

\* `finally: Path(list_file).unlink()`
UnlinkManifest(c) == [ c EXCEPT !.manifest = "deleted" ]

ConcatFinally ==
    /\ concat.pc = "finally"
    /\ concat' = [ UnlinkManifest(concat) EXCEPT
                     !.pc = IF concat.raising THEN "raised" ELSE "returned" ]
    /\ UNCHANGED concatRest


\* nothing but execute is running
InitAux ==
    /\ tr_call = NoTimeCall
    /\ cancelled = FALSE
    /\ summary_call = NoSummaryCall
    /\ concat = NoConcat

InitFrames ==
    /\ queries = << >>
    /\ call_idx = 1
    /\ seen_video_ids = { }
    /\ all_videos = << >>
    /\ search_stats = EmptyStats
    /\ search_log = << >>
    /\ first_failed = 0
    /\ title_answer = NoTitleAnswer
    /\ relevant_video_ids = << >>
    /\ filtered_videos = << >>
    /\ futures = << >>
    /\ collect_idx = 1
    /\ p_candidates = << >>
    /\ counters = ZeroCounters
    /\ tasks = << >>
    /\ results = << >>
    /\ completed_count = 0

Init ==
    /\ pc = "start"
    /\ cfg \in Configs
    /\ events = << >>
    /\ calls = ZeroCalls
    /\ videos = << >>
    /\ candidates = << >>
    /\ segments = << >>
    /\ InitFrames
    /\ InitAux

Next ==
    \/ GenerateSearchQueries
    \/ SearchSingleStrategy
    \/ SearchReturn
    \/ FilterVideosByTitle
    \/ SubmitVideoTasks
    \/ \E k \in 1..Len(futures) : StartVideoTask(k)
    \/ \E k \in 1..Len(futures) : ProcessSingleVideo(k)
    \/ CollectFuture
    \/ TranscriptReturn
    \/ \E k \in 1..Len(tasks) : StartCandidate(k)
    \/ \E k \in 1..Len(tasks) : ExtractClip(k)
    \/ \E k \in 1..Len(tasks) : AnalyzeClip(k)
    \/ \E k \in 1..Len(tasks) : FinallyClause(k)
    \/ \E k \in 1..Len(tasks) : CollectResult(k)
    \/ RefineReturn

Spec == Init /\ [][Next]_vars


----------------------------------------------------------------------------
(* Specification of the refinement stage alone: execute has reached the call *)
(* of _refine_with_vlm with 1..MaxCandidates candidates of two videos.       *)

MaxCandidates == 3

\* candidates in confidence-descending order, as execute passes them
RefineCandidates(n) ==
    [ i \in 1..n |->
        [ video      |-> IF i % 2 = 1 THEN "v1" ELSE "v2",
          time_range |-> IF i % 2 = 1 THEN TimeRange(segB.start_sec, segB.end_sec)
                         ELSE TimeRange(segA.start_sec, segA.end_sec),
          confidence |-> 10 - i,
          summary    |-> "s" ] ]

\* the progress values execute has emitted before the workers start
EventsBeforeRefine ==
    << Frac(5, 100), Frac(8, 100), Frac(10, 100), Frac(20, 100), Frac(22, 100),
       Frac(24, 100), Frac(25, 100), Frac(25 * 2 + 20 * 2, 100 * 2), Frac(50, 100),
       Frac(55, 100), Frac(60, 100), Frac(60, 100) >>

InitRefine ==
    /\ pc = "refine"
    /\ \E n \in 1..MaxCandidates :
         /\ cfg = [ max_search_results |-> 3, max_final_results |-> n,
                    buffer_ratio |-> 20, min_confidence |-> 3,
                    enable_vlm_refinement |-> TRUE,
                    duration_min_sec |-> 60, duration_max_sec |-> 7200,
                    enable_youtube_url_fallback |-> TRUE,
                    youtube_url_fallback_max_duration |-> 1200,
                    progress_callback |-> TRUE, clip_save_callback |-> TRUE,
                    subtitle_callback |-> TRUE ]
         /\ candidates = RefineCandidates(n)
         /\ tasks = [ i \in 1..n |-> NewTask(i - 1, RefineCandidates(n)[i]) ]
    /\ events = EventsBeforeRefine
    /\ calls = [ fanout |-> 1, title |-> 1, fetch |-> 2 ]
    /\ videos = << "v1", "v2" >>
    /\ segments = << >>
    /\ queries = << >>
    /\ call_idx = 1
    /\ seen_video_ids = { }
    /\ all_videos = << >>
    /\ search_stats = EmptyStats
    /\ search_log = << >>
    /\ first_failed = 0
    /\ InitAux
    /\ title_answer = NoTitleAnswer
    /\ relevant_video_ids = << >>
    /\ filtered_videos = << >>
    /\ futures = << >>
    /\ collect_idx = 1
    /\ p_candidates = candidates
    /\ counters = [ processed |-> 2, success |-> IF Len(candidates) > 1 THEN 2 ELSE 1,
                    no_match |-> IF Len(candidates) > 1 THEN 0 ELSE 1,
                    no_subtitle |-> 0, errors |-> 0 ]
    /\ results = << >>
    /\ completed_count = 0

NextRefine ==
    \/ \E k \in 1..Len(tasks) : StartCandidate(k)
    \/ \E k \in 1..Len(tasks) : ExtractClip(k)
    \/ \E k \in 1..Len(tasks) : AnalyzeClip(k)
    \/ \E k \in 1..Len(tasks) : FinallyClause(k)
    \/ \E k \in 1..Len(tasks) : CollectResult(k)
    \/ RefineReturn

SpecRefine == InitRefine /\ [][NextRefine]_vars


----------------------------------------------------------------------------
(* Specification of search_multi_strategy alone: execute has reached the   *)
(* call with its deduplicated queries.                                     *)

SearchInputs ==
    { [ queries |-> << user_query >>, max_search_results |-> 6 ],
      [ queries |-> << user_query, "qL1" >>, max_search_results |-> 3 ],
      [ queries |-> << user_query, "qL1", "qL2" >>, max_search_results |-> 3 ] }

InitSearch ==
    /\ pc = "search"
    /\ \E inp \in SearchInputs :
         /\ queries = inp.queries
         /\ cfg = [ max_search_results |-> inp.max_search_results,
                    max_final_results |-> 2,
                    buffer_ratio |-> 20, min_confidence |-> 3,
                    enable_vlm_refinement |-> TRUE,
                    duration_min_sec |-> 60, duration_max_sec |-> 7200,
                    enable_youtube_url_fallback |-> TRUE,
                    youtube_url_fallback_max_duration |-> 1200,
                    progress_callback |-> TRUE, clip_save_callback |-> TRUE,
                    subtitle_callback |-> TRUE ]
    /\ events = << Frac(5, 100), Frac(8, 100), Frac(10, 100) >>
    /\ calls = [ fanout |-> 1, title |-> 0, fetch |-> 0 ]
    /\ videos = << >>
    /\ candidates = << >>
    /\ segments = << >>
    /\ call_idx = 1
    /\ seen_video_ids = { }
    /\ all_videos = << >>
    /\ search_stats = EmptyStats
    /\ search_log = << >>
    /\ first_failed = 0
    /\ InitAux
    /\ title_answer = NoTitleAnswer
    /\ relevant_video_ids = << >>
    /\ filtered_videos = << >>
    /\ futures = << >>
    /\ collect_idx = 1
    /\ p_candidates = << >>
    /\ counters = ZeroCounters
    /\ tasks = << >>
    /\ results = << >>
    /\ completed_count = 0

NextSearch ==
    \/ SearchSingleStrategy
    \/ SearchReturn

SpecSearch == InitSearch /\ [][NextSearch]_vars


----------------------------------------------------------------------------
(* Specification of the title filter alone: the search has returned up to   *)
(* MaxTitleVideos distinct videos.                                          *)

MaxTitleVideos == 4

SearchedIds == << "v1", "v2", "v4", "v5", "v6" >>

DistinctSeqs(S, n) ==
    { s \in SeqsUpTo(S, n) : \A i, j \in 1..Len(s) : i # j => s[i] # s[j] }

InitTitle ==
    /\ pc = "title"
    /\ videos \in DistinctSeqs({ SearchedIds[i] : i \in 1..Min(MaxTitleVideos, Len(SearchedIds)) },
                               MaxTitleVideos) \ { << >> }
    /\ cfg = [ max_search_results |-> 3, max_final_results |-> 2,
               buffer_ratio |-> 20, min_confidence |-> 3,
               enable_vlm_refinement |-> TRUE,
               duration_min_sec |-> 60, duration_max_sec |-> 7200,
               enable_youtube_url_fallback |-> TRUE,
               youtube_url_fallback_max_duration |-> 1200,
               progress_callback |-> TRUE, clip_save_callback |-> TRUE,
               subtitle_callback |-> TRUE ]
    /\ events = << Frac(5, 100), Frac(8, 100), Frac(10, 100), Frac(20, 100),
                   Frac(22, 100) >>
    /\ calls = [ fanout |-> 1, title |-> 0, fetch |-> 0 ]
    /\ candidates = << >>
    /\ segments = << >>
    /\ InitFrames
    /\ InitAux

NextTitle ==
    \/ FilterVideosByTitle
    \/ SubmitVideoTasks

SpecTitle == InitTitle /\ [][NextTitle]_vars


----------------------------------------------------------------------------
(* Specification of the refinement of one candidate, for candidates whose   *)
(* ranges start at, near and far from the beginning of the video.           *)

ClipRanges ==
    { TimeRange(0, 100), TimeRange(10, 110), TimeRange(200, 500),
      TimeRange(300, 310), TimeRange(1000, 1200), TimeRange(11950, 12000) }

InitClip ==
    /\ pc = "refine"
    /\ \E v \in { "v1", "v2" }, r \in ClipRanges, ratio \in { 20, 50 } :
         /\ cfg = [ max_search_results |-> 3, max_final_results |-> 1,
                    buffer_ratio |-> ratio, min_confidence |-> 3,
                    enable_vlm_refinement |-> TRUE,
                    duration_min_sec |-> 60, duration_max_sec |-> 7200,
                    enable_youtube_url_fallback |-> TRUE,
                    youtube_url_fallback_max_duration |-> 1200,
                    progress_callback |-> TRUE, clip_save_callback |-> TRUE,
                    subtitle_callback |-> TRUE ]
         /\ candidates = << [ video |-> v, time_range |-> r, confidence |-> 9,
                              summary |-> "s" ] >>
         /\ videos = << v >>
    /\ tasks = << NewTask(0, candidates[1]) >>
    /\ events = << Frac(5, 100), Frac(8, 100), Frac(10, 100), Frac(20, 100),
                   Frac(22, 100), Frac(24, 100), Frac(25, 100), Frac(45, 100),
                   Frac(50, 100), Frac(55, 100), Frac(60, 100), Frac(60, 100) >>
    /\ calls = [ fanout |-> 1, title |-> 1, fetch |-> 1 ]
    /\ segments = << >>
    /\ queries = << >>
    /\ call_idx = 1
    /\ seen_video_ids = { }
    /\ all_videos = << >>
    /\ search_stats = EmptyStats
    /\ search_log = << >>
    /\ first_failed = 0
    /\ InitAux
    /\ title_answer = NoTitleAnswer
    /\ relevant_video_ids = << >>
    /\ filtered_videos = << >>
    /\ futures = << >>
    /\ collect_idx = 1
    /\ p_candidates = candidates
    /\ counters = [ processed |-> 1, success |-> 1, no_match |-> 0,
                    no_subtitle |-> 0, errors |-> 0 ]
    /\ results = << >>
    /\ completed_count = 0

SpecClip == InitClip /\ [][NextRefine]_vars

----------------------------------------------------------------------------
(* The refinement of one candidate while the caller signals cancellation.  *)
(* execute takes user_query, progress_callback, subtitle_callback and      *)
(* clip_save_callback and nothing else: the signal reaches no code of the  *)
(* pipeline, and process_candidate sleeps with time.sleep                  *)

Cancel ==
    /\ ~cancelled
    /\ cancelled' = TRUE
    /\ UNCHANGED << pc, cfg, summary_call, tr_call, concat, events, calls, videos, candidates,
                    segments, searchFrame, titleFrame, parFrame, refineFrame >>

NextCancel == NextRefine \/ Cancel

SpecCancel == InitClip /\ [][NextCancel]_vars

----------------------------------------------------------------------------
(* TimeRange on its own: every pair of arguments of the grid is given to   *)
(* the constructor, every object built gets one with_buffer call           *)

InitTime ==
    /\ pc = "idle"
    /\ cfg = CHOOSE c \in Configs : TRUE
    /\ events = << >>
    /\ calls = ZeroCalls
    /\ videos = << >>
    /\ candidates = << >>
    /\ segments = << >>
    /\ InitFrames
    /\ \E s \in TimeGrid, e \in TimeGrid, r \in BufferRatios :
         tr_call = [ NoTimeCall EXCEPT !.state = "args", !.start_sec = s,
                                       !.end_sec = e, !.buffer_ratio = r ]
    /\ cancelled = FALSE
    /\ summary_call = NoSummaryCall
    /\ concat = NoConcat

NextTime == ConstructTimeRange \/ WithBuffer

SpecTime == InitTime /\ [][NextTime]_vars

----------------------------------------------------------------------------
(* concat_clips on its own, for every list of at most MaxClips files *)

MaxClips == 3

InitConcat ==
    /\ pc = "idle"
    /\ cfg = CHOOSE c \in Configs : TRUE
    /\ events = << >>
    /\ calls = ZeroCalls
    /\ videos = << >>
    /\ candidates = << >>
    /\ segments = << >>
    /\ InitFrames
    /\ tr_call = NoTimeCall
    /\ cancelled = FALSE
    /\ summary_call = NoSummaryCall
    /\ \E n \in 0..MaxClips :
         \E f \in [ 1..n -> ClipFiles ] :
            concat = [ NoConcat EXCEPT
                         !.pc = "start",
                         !.clip_paths = [ i \in 1..n |->
                                            [ id |-> i, exists |-> f[i].exists,
                                              size |-> f[i].size,
                                              probe |-> f[i].probe ] ] ]

NextConcat == ConcatClips \/ RunStreamCopy \/ RunReencode \/ ConcatFinally

SpecConcat == InitConcat /\ [][NextConcat]_vars

----------------------------------------------------------------------------
(* generate_integrated_summary on its own, for every list of at most       *)
(* MaxSummaries segment summaries                                          *)

MaxSummaries == 3

InitSummary ==
    /\ pc = "idle"
    /\ cfg = CHOOSE c \in Configs : TRUE
    /\ events = << >>
    /\ calls = ZeroCalls
    /\ videos = << >>
    /\ candidates = << >>
    /\ segments = << >>
    /\ InitFrames
    /\ tr_call = NoTimeCall
    /\ cancelled = FALSE
    /\ concat = NoConcat
    /\ \E n \in 0..MaxSummaries :
         \E f \in [ 1..n -> SummaryTexts ] :
            summary_call = [ NoSummaryCall EXCEPT
                               !.state = "called",
                               !.segment_summaries =
                                   [ i \in 1..n |->
                                       [ video_title |-> "t", summary |-> f[i],
                                         time_range |-> "r" ] ] ]

NextSummary == GenerateIntegratedSummary

SpecSummary == InitSummary /\ [][NextSummary]_vars

----------------------------------------------------------------------------
(* The two worker pools with more tasks than threads: the transcript stage *)
(* over MaxPoolVideos videos (refinement disabled), or the refinement      *)
(* stage over MaxPoolTasks candidates. Only v1 has failing calls.          *)

MaxPoolVideos == 6

MaxPoolTasks == 4

PoolVideos == << "v1", "v4", "v5", "v6", "v7", "v8", "v9" >>

PoolConfig(refine, max_final_results) ==
    [ max_search_results |-> 30, max_final_results |-> max_final_results,
      buffer_ratio |-> 20, min_confidence |-> 3,
      enable_vlm_refinement |-> refine,
      duration_min_sec |-> 60, duration_max_sec |-> 7200,
      enable_youtube_url_fallback |-> TRUE,
      youtube_url_fallback_max_duration |-> 1200,
      progress_callback |-> TRUE, clip_save_callback |-> TRUE,
      subtitle_callback |-> TRUE ]

\* the candidates of the first n pool videos, one each, already sorted
PoolCandidates(n) ==
    [ i \in 1..n |->
        [ video |-> PoolVideos[i], time_range |-> TimeRange(segA.start_sec, segA.end_sec),
          confidence |-> segA.confidence, summary |-> segA.summary ] ]

\* execute has submitted the transcript tasks (line 267)
InitPoolTranscript ==
    /\ pc = "transcript"
    /\ cfg = PoolConfig(FALSE, 2)
    /\ events = << Frac(5, 100), Frac(8, 100), Frac(10, 100), Frac(20, 100),
                   Frac(22, 100), Frac(24, 100), Frac(25, 100) >>
    /\ calls = [ fanout |-> 1, title |-> 1, fetch |-> 0 ]
    /\ videos = Take(PoolVideos, MaxPoolVideos)
    /\ candidates = << >>
    /\ segments = << >>
    /\ queries = << >>
    /\ call_idx = 1
    /\ seen_video_ids = { }
    /\ all_videos = << >>
    /\ search_stats = EmptyStats
    /\ search_log = << >>
    /\ first_failed = 0
    /\ title_answer = NoTitleAnswer
    /\ relevant_video_ids = << >>
    /\ filtered_videos = << >>
    /\ futures = [ k \in 1..MaxPoolVideos |-> NewFuture(PoolVideos[k]) ]
    /\ collect_idx = 1
    /\ p_candidates = << >>
    /\ counters = ZeroCounters
    /\ tasks = << >>
    /\ results = << >>
    /\ completed_count = 0
    /\ tr_call = NoTimeCall
    /\ cancelled = FALSE
    /\ concat = NoConcat
    /\ summary_call = NoSummaryCall

\* _refine_with_vlm has submitted the refinement tasks (line 790)
InitPoolRefine ==
    /\ pc = "refine"
    /\ cfg = PoolConfig(TRUE, MaxPoolTasks)
    /\ events = << Frac(5, 100), Frac(8, 100), Frac(10, 100), Frac(20, 100),
                   Frac(22, 100), Frac(24, 100), Frac(25, 100), Frac(45, 100),
                   Frac(50, 100), Frac(55, 100), Frac(60, 100), Frac(60, 100) >>
    /\ calls = [ fanout |-> 1, title |-> 1, fetch |-> MaxPoolTasks ]
    /\ videos = Take(PoolVideos, MaxPoolTasks)
    /\ candidates = PoolCandidates(MaxPoolTasks)
    /\ segments = << >>
    /\ queries = << >>
    /\ call_idx = 1
    /\ seen_video_ids = { }
    /\ all_videos = << >>
    /\ search_stats = EmptyStats
    /\ search_log = << >>
    /\ first_failed = 0
    /\ title_answer = NoTitleAnswer
    /\ relevant_video_ids = << >>
    /\ filtered_videos = << >>
    /\ futures = << >>
    /\ collect_idx = 1
    /\ p_candidates = candidates
    /\ counters = [ ZeroCounters EXCEPT !.processed = MaxPoolTasks,
                                        !.success = MaxPoolTasks ]
    /\ tasks = [ i \in 1..MaxPoolTasks |-> NewTask(i - 1, candidates[i]) ]
    /\ results = << >>
    /\ completed_count = 0
    /\ tr_call = NoTimeCall
    /\ cancelled = FALSE
    /\ concat = NoConcat
    /\ summary_call = NoSummaryCall

InitPool == InitPoolTranscript \/ InitPoolRefine

NextPool ==
    \/ \E k \in 1..Len(futures) : StartVideoTask(k)
    \/ \E k \in 1..Len(futures) : ProcessSingleVideo(k)
    \/ CollectFuture
    \/ TranscriptReturn
    \/ NextRefine

SpecPool == InitPool /\ [][NextPool]_vars

----------------------------------------------------------------------------
(* The refinement stage under fair scheduling: the pool threads, the         *)
(* collecting loop and the return are never all suspended for ever while one *)
(* of them can take a step (every extractor and video-model call returns or  *)
(* raises, every sleep ends).                                                *)

RefineFairness == WF_vars(NextRefine)

SpecRefineFair == InitPoolRefine /\ [][NextRefine]_vars /\ RefineFairness


----------------------------------------------------------------------------
(* Properties *)

Finished(t) == t.state \in { "finally", "returned", "collected" }

ExtractFailedTask(t) == Finished(t) /\ t.extract_failed
VlmExhaustedTask(t)  == Finished(t) /\ ~t.extract_failed /\ ~t.vlm_ok
                           /\ t.vlm_calls = max_retries

\* C1: when _refine_with_vlm has returned, there is exactly one segment per
\* input candidate (of that candidate's video), whatever extractor, video-model
\* and clip-save callback failures occurred in the tasks.
C1_OneSegmentPerCandidate ==
    pc = "done" =>
        /\ Len(segments) = Len(candidates)
        /\ \A i \in 1..Len(candidates) :
              i <= Len(segments) /\ segments[i].video = candidates[i].video

\* A finished run in which one task's extraction failed, another task's
\* video-model call failed on every attempt and a clip-save callback raised.
C1_Witness ==
    /\ pc = "done"
    /\ \E a, b, c \in 1..Len(tasks) :
          /\ ExtractFailedTask(tasks[a])
          /\ VlmExhaustedTask(tasks[b])
          /\ tasks[c].sink_raised

\* C2: the i-th returned segment is the segment that the task of the i-th
\* candidate produced, for every completion order of the workers.
C2_SegmentOrderIsCandidateOrder ==
    pc = "done" =>
        /\ Len(segments) = Len(tasks)
        /\ \A i \in 1..Len(tasks) :
              /\ i <= Len(segments)
              /\ segments[i] = tasks[i].segment
              /\ tasks[i].index = i - 1
              /\ tasks[i].video = candidates[i].video
              /\ tasks[i].estimated_range = candidates[i].time_range

\* A finished run whose tasks completed out of index order and whose first two
\* segments differ.
C2_Witness ==
    /\ pc = "done"
    /\ \E i, j \in 1..Len(results) : i < j /\ results[i][1] > results[j][1]
    /\ Len(segments) >= 2
    /\ segments[1] # segments[2]

\* C3: execute never raises for a per-stage failure.
C3_ExecuteNeverRaises == pc # "raised"

DegradedSegmentOf(c) ==
    VideoSegment(c.video, c.time_range, RefinementFailed, degraded_confidence)

RefinedSegmentOf(c, answer) ==
    VideoSegment(c.video,
                 convert_relative_to_absolute(
                     with_buffer(c.time_range, cfg.buffer_ratio).start_sec,
                     answer.relative_range),
                 answer.summary, answer.confidence)

\* C4: a task whose extraction failed, or whose video-model call failed on
\* every attempt, yields the candidate's own range with confidence 0.5 and the
\* fixed summary; a task whose video-model call succeeded yields the refined
\* segment, which is not a degraded one.
C4_DegradedOnlyOnFailure ==
    \A k \in 1..Len(tasks) :
        LET t == tasks[k]
        IN /\ (ExtractFailedTask(t) \/ VlmExhaustedTask(t))
                 => t.segment = DegradedSegmentOf(candidates[k])
           /\ t.vlm_ok
                 => /\ t.segment = RefinedSegmentOf(candidates[k], t.vlm_answer)
                    /\ t.segment # DegradedSegmentOf(candidates[k])
                    /\ t.segment.summary # RefinementFailed

\* All three kinds of task, finished, in one run.
C4_Witness ==
    \E a, b, c \in 1..Len(tasks) :
        /\ ExtractFailedTask(tasks[a])
        /\ VlmExhaustedTask(tasks[b])
        /\ tasks[c].vlm_ok /\ tasks[c].state = "collected"

\* C5: a step that calls the video model for a task makes exactly one call,
\* is the 1st, 2nd or 3rd call of the task, and no earlier call of the task
\* has succeeded.
C5_AtMostThreeVlmCalls ==
    [][ \A k \in 1..Len(tasks) :
          (Len(tasks') = Len(tasks) /\ tasks'[k].vlm_calls # tasks[k].vlm_calls)
             => /\ tasks'[k].vlm_calls = tasks[k].vlm_calls + 1
                /\ tasks[k].vlm_calls < max_retries
                /\ ~tasks[k].vlm_ok
                /\ tasks[k].attempt = tasks[k].vlm_calls ]_vars

\* A task whose third call succeeded.
C5_Witness ==
    \E k \in 1..Len(tasks) : tasks[k].vlm_calls = max_retries /\ tasks[k].vlm_ok

\* C6: every task calls the extractor exactly once before anything else it
\* does, and a task whose extraction failed never calls the video model.
C6_ExtractOnceNoRetry ==
    \A k \in 1..Len(tasks) :
        LET t == tasks[k]
        IN /\ t.extract_calls <= 1
           /\ (t.state \in { "analyzing", "finally", "returned", "collected" })
                 => t.extract_calls = 1
           /\ t.extract_failed => t.vlm_calls = 0
           /\ t.vlm_calls > 0 => t.extract_calls = 1

\* A collected task whose only extraction failed, next to one that was analysed.
C6_Witness ==
    \E a, b \in 1..Len(tasks) :
        /\ tasks[a].state = "collected" /\ tasks[a].extract_failed
        /\ tasks[a].extract_calls = 1
        /\ tasks[b].vlm_calls > 0

NoDuplicates(s) == \A i, j \in 1..Len(s) : i # j => s[i] # s[j]

FirstIndex(s, x) == CHOOSE i \in 1..Len(s) : s[i] = x /\ \A j \in 1..(i - 1) : s[j] # x

\* all is the list of the distinct elements of log in order of first occurrence
InFirstDiscoveryOrder(all, log) ==
    /\ NoDuplicates(all)
    /\ Range(all) = Range(log)
    /\ \A i, j \in 1..Len(all) :
          i < j => FirstIndex(log, all[i]) < FirstIndex(log, all[j])

\* C7: during and at the end of search_multi_strategy the merged list holds
\* each video_id at most once, in the order in which the calls (queries in
\* order, strategies in order per query) first returned it; the list handed
\* to execute has no duplicate either.
C7_DedupFirstDiscovery ==
    /\ pc = "search" => InFirstDiscoveryOrder(all_videos, search_log)
    /\ NoDuplicates(videos)

\* The loop is over, some video was returned more than once, and two videos
\* were discovered in the opposite order of their ids.
C7_Witness ==
    /\ pc = "search"
    /\ call_idx > NumCalls
    /\ Len(search_log) > Len(all_videos)
    /\ all_videos = << "v2", "v1" >>

NonDecreasing(evs) == \A i \in 1..(Len(evs) - 1) : FracLeq(evs[i], evs[i + 1])

\* C8: the progress values emitted so far are non-decreasing, and when execute
\* has returned the last value emitted is exactly 1.0.
C8_ProgressMonotone ==
    /\ NonDecreasing(events)
    /\ pc = "done" => (events # << >> /\ IsOne(events[Len(events)]))

\* A run that returned after two refinement workers each emitted an event.
C8_Witness ==
    /\ pc = "done"
    /\ completed_count = 2
    /\ counters.processed = 2

TotalExtractCalls == Cardinality({ k \in 1..Len(tasks) : tasks[k].extract_calls > 0 })
TotalVlmCalls     == Cardinality({ k \in 1..Len(tasks) : tasks[k].vlm_calls > 0 })

\* C9: a run whose search returned no video ends with zero segments, a last
\* event of 1.0 and no title-filter, transcript, extractor or video-model
\* call; a run whose transcript stage yielded no candidate ends with zero
\* segments, a last event of 1.0 and no extractor or video-model call.
C9_ShortCircuit ==
    /\ (pc = "done" /\ videos = << >>)
          => /\ segments = << >>
             /\ events # << >> /\ IsOne(events[Len(events)])
             /\ calls.title = 0 /\ calls.fetch = 0
             /\ TotalExtractCalls = 0 /\ TotalVlmCalls = 0
    /\ (pc = "done" /\ candidates = << >>)
          => /\ segments = << >>
             /\ events # << >> /\ IsOne(events[Len(events)])
             /\ TotalExtractCalls = 0 /\ TotalVlmCalls = 0
             /\ tasks = << >>
    /\ (pc \in { "title", "transcript", "refine" }) => videos # << >>
    /\ pc = "refine" => candidates # << >>

\* A run that returned early after a transcript stage that fetched
\* transcripts but produced no candidate.
C9_Witness ==
    /\ pc = "done"
    /\ videos # << >>
    /\ candidates = << >>
    /\ calls.fetch = 2

\* c is the k highest-confidence elements of p in non-increasing order
IsTopK(c, p, k) ==
    /\ Len(c) = Min(k, Len(p))
    /\ \A i \in 1..(Len(c) - 1) : c[i].confidence >= c[i + 1].confidence
    /\ \E f \in [ 1..Len(c) -> 1..Len(p) ] :
          /\ \A i, j \in 1..Len(c) : i # j => f[i] # f[j]
          /\ \A i \in 1..Len(c) : p[f[i]] = c[i]
          /\ \A j \in 1..Len(p) :
                (\A i \in 1..Len(c) : f[i] # j)
                   => \A i \in 1..Len(c) : p[j].confidence <= c[i].confidence

\* C10: after the transcript stage the candidates are the max_final_results
\* highest-confidence candidates it collected, in non-increasing confidence
\* order, and a returned result has at most max_final_results segments.
C10_TopKCandidates ==
    /\ pc \in { "refine", "done" }
          => IsTopK(candidates, p_candidates, cfg.max_final_results)
    /\ pc = "done" => Len(segments) <= cfg.max_final_results

\* Refinement starts after a stage that collected more candidates than are
\* kept, not in confidence order.
C10_Witness ==
    /\ pc = "refine"
    /\ Len(p_candidates) > cfg.max_final_results
    /\ \E i, j \in 1..Len(p_candidates) :
          i < j /\ p_candidates[i].confidence < p_candidates[j].confidence


HasConfidence(cands, c) == \E i \in 1..Len(cands) : cands[i].confidence = c

\* C11: every candidate a transcript-stage task returns, and every candidate
\* the stage collects, has confidence >= min_confidence, and every tuple the
\* text model returned with confidence >= min_confidence (equality included)
\* is among the task's candidates, on the subtitle path and on the
\* URL-fallback path.
C11_MinConfidenceInclusive ==
    /\ \A i \in 1..Len(p_candidates) : p_candidates[i].confidence >= cfg.min_confidence
    /\ \A k \in 1..Len(futures) :
          LET f == futures[k]
          IN /\ \A i \in 1..Len(f.result) : f.result[i].confidence >= cfg.min_confidence
             /\ (f.state = "done" /\ ~f.raised)
                   => \A j \in 1..Len(f.ranges) :
                         f.ranges[j].confidence >= cfg.min_confidence
                            => \E i \in 1..Len(f.result) :
                                  f.result[i] = Candidate(f.video, f.ranges[j])

\* One task kept a tuple of confidence exactly min_confidence on the
\* URL-fallback path, another on the subtitle path, and the stage collected one.
C11_Witness ==
    /\ pc = "transcript"
    /\ \E a, b \in 1..Len(futures) :
          /\ futures[a].urlfb_calls = 1
          /\ HasConfidence(futures[a].result, cfg.min_confidence)
          /\ futures[b].rank_calls = 1
          /\ HasConfidence(futures[b].result, cfg.min_confidence)
    /\ HasConfidence(p_candidates, cfg.min_confidence)

\* C12: a finished task made the URL-fallback call iff its fetch returned no
\* subtitle, the fallback is enabled and the video's duration is at most
\* youtube_url_fallback_max_duration; it made the ranking call iff a subtitle
\* was returned; it never made both, and neither more than once.
C12_FallbackGate ==
    \A k \in 1..Len(futures) :
        LET f == futures[k]
        IN /\ f.urlfb_calls \in { 0, 1 } /\ f.rank_calls \in { 0, 1 }
           /\ f.urlfb_calls + f.rank_calls <= 1
           /\ f.state = "done"
                 => /\ f.urlfb_calls = 1
                        <=> /\ f.fetched = "none"
                            /\ cfg.enable_youtube_url_fallback
                            /\ duration_sec[f.video] <= cfg.youtube_url_fallback_max_duration
                    /\ f.rank_calls = 1 <=> f.fetched = "subtitle"
           /\ f.state # "done" => (f.urlfb_calls = 0 /\ f.rank_calls = 0)

\* Two subtitle-less videos with the fallback enabled: the one whose duration
\* equals the cap was analysed by URL, the one a second longer was not.
C12_Witness ==
    /\ cfg.enable_youtube_url_fallback
    /\ \E a, b \in 1..Len(futures) :
          /\ futures[a].fetched = "none" /\ futures[a].urlfb_calls = 1
          /\ duration_sec[futures[a].video] = cfg.youtube_url_fallback_max_duration
          /\ futures[b].fetched = "none" /\ futures[b].urlfb_calls = 0
          /\ futures[b].state = "done"

\* C13: a task whose transcript fetch raised, for a video eligible for the
\* URL fallback, made the URL-fallback call.
C13_FallbackOnTranscriptError ==
    \A k \in 1..Len(futures) :
        (/\ futures[k].state = "done"
         /\ futures[k].fetched = "raise"
         /\ should_use_youtube_url_fallback(futures[k].video))
            => futures[k].urlfb_calls = 1

\* the candidates contributed by the first n futures
RECURSIVE Contributed(_, _)
Contributed(fs, n) ==
    IF n = 0 THEN << >>
    ELSE Contributed(fs, n - 1)
            \o (IF fs[n].outcome = "returned" THEN fs[n].result ELSE << >>)

\* C14: a worker whose task raised or timed out contributes no candidate, the
\* collecting loop visits every future whatever happened to the earlier ones,
\* and the stage's candidates are those of every worker that returned, in
\* video order.
C14_WorkerIsolation ==
    pc = "transcript" =>
        /\ collect_idx <= Len(futures) + 1
        /\ \A k \in 1..Len(futures) :
              /\ futures[k].outcome # "pending" <=> k < collect_idx
              /\ futures[k].outcome = "raised" => futures[k].raised
              /\ futures[k].outcome = "returned"
                    => (futures[k].state = "done" /\ ~futures[k].raised)
        /\ p_candidates = Contributed(futures, collect_idx - 1)
        /\ counters.processed = collect_idx - 1
        /\ counters.errors =
              Cardinality({ k \in 1..Len(futures) :
                              futures[k].outcome \in { "raised", "timeout" } })

\* The loop is over: the first worker timed out (its late result is not
\* empty) or raised, and the second worker's candidates were collected.
C14_Witness ==
    /\ pc = "transcript"
    /\ Len(futures) = 2
    /\ collect_idx > Len(futures)
    /\ \/ futures[1].outcome = "timeout" /\ futures[1].result # << >>
       \/ futures[1].outcome = "raised" /\ futures[1].fetched = "subtitle"
    /\ futures[2].outcome = "returned"
    /\ futures[2].result # << >>
    /\ p_candidates = futures[2].result


\* out is the first n elements of s, n being the smaller of k and Len(s)
IsFirstK(out, s, k) ==
    /\ Len(out) = Min(k, Len(s))
    /\ \A i \in 1..Len(out) : i <= Len(s) /\ out[i] = s[i]

IsValidPrefix(out, ans, valid, k) ==
    LET n == Len(out)
    IN /\ n <= k
       /\ \A i \in 1..n : out[i] \in valid
       /\ \E f \in [ 1..n -> 1..Len(ans) ] :
             /\ \A i, j \in 1..n : i < j => f[i] < f[j]
             /\ \A i \in 1..n : ans[f[i]] = out[i]
             /\ \A j \in 1..Len(ans) :
                   (ans[j] \in valid /\ \A i \in 1..n : f[i] # j)
                      => (n = k /\ n > 0 /\ j > f[n])

\* C16: on a parseable answer filter_videos_by_title returns the ids of the
\* answer that are among its input ids, in the order of the answer, cut after
\* max_results ids.
C16_TitleFilterOutput ==
    (pc = "title_filtered" /\ title_answer.kind = "json")
       => IsValidPrefix(relevant_video_ids, title_answer.relevant_video_ids,
                        Range(videos), Min(10, cfg.max_search_results))

\* The answer named more input ids than max_results, in an order that is not
\* the input order, and the returned list was cut.
C16_Witness ==
    /\ pc = "title_filtered"
    /\ title_answer.kind = "json"
    /\ Len(title_answer.relevant_video_ids) > Min(10, cfg.max_search_results)
    /\ Len(relevant_video_ids) = Min(10, cfg.max_search_results)
    /\ Len(videos) >= 2
    /\ relevant_video_ids[1] = videos[2]
    /\ relevant_video_ids[2] = videos[1]


\* query, strategy and counter key of the i-th call of search_multi_strategy
CallQuery(i)    == queries[((i - 1) \div Len(strategies)) + 1]
CallStrategy(i) == strategies[((i - 1) % Len(strategies)) + 1]
CallKey(i)      == strategy_key(CallQuery(i), CallStrategy(i))

\* C17: every (query, strategy) call, failed or not, is followed by the next
\* call of the loops and leaves a counter under its key; the first call that
\* fails adds no video and sets its counter to 0; the search returns only
\* after the last call, with the merged list.
C17_SearchFailureIsolated ==
    [][ /\ (pc = "search" /\ pc' = "search" /\ call_idx' # call_idx)
              => /\ call_idx <= NumCalls
                 /\ call_idx' = call_idx + 1
                 /\ CallKey(call_idx) \in DOMAIN search_stats'
                 /\ (first_failed = 0 /\ first_failed' # 0)
                       => /\ first_failed' = call_idx
                          /\ all_videos' = all_videos
                          /\ seen_video_ids' = seen_video_ids
                          /\ search_log' = search_log
                          /\ search_stats'[CallKey(call_idx)] = 0
        /\ (pc = "search" /\ pc' # "search")
              => /\ call_idx = NumCalls + 1
                 /\ videos' = all_videos ]_vars

\* The loops are over: the very first call failed, its counter is 0, and the
\* later calls merged two videos.
C17_Witness ==
    /\ pc = "search"
    /\ call_idx > NumCalls
    /\ first_failed = 1
    /\ search_stats[CallKey(1)] = 0
    /\ Len(all_videos) = 2

RECURSIVE SumOver(_, _)
SumOver(f, S) ==
    IF S = { } THEN 0
    ELSE LET k == CHOOSE x \in S : TRUE
         IN f[k] + SumOver(f, S \ { k })

\* C18: when the loops of search_multi_strategy are over, search_stats has
\* one entry per (query, strategy) call, 3 per query, and its values sum to
\* the number of videos the calls returned.
C18_StatsPerCall ==
    (pc = "search" /\ call_idx > NumCalls)
       => /\ Cardinality(DOMAIN search_stats) = 3 * Len(queries)
          /\ SumOver(search_stats, DOMAIN search_stats) = Len(search_log)


\* C19: with enable_vlm_refinement false no refinement task exists, so the
\* extractor and the video model are never called, and the returned segments
\* are the top max_final_results candidates in order, each with the
\* candidate's video, time range, confidence and summary.
C19_VlmDisabledVerbatim ==
    ~cfg.enable_vlm_refinement =>
        /\ pc # "refine"
        /\ tasks = << >>
        /\ TotalExtractCalls = 0 /\ TotalVlmCalls = 0
        /\ pc = "done" =>
              /\ IsTopK(candidates, p_candidates, cfg.max_final_results)
              /\ Len(segments) = Len(candidates)
              /\ \A i \in 1..Len(candidates) :
                    /\ i <= Len(segments)
                    /\ segments[i].video = candidates[i].video
                    /\ segments[i].time_range = candidates[i].time_range
                    /\ segments[i].confidence = candidates[i].confidence
                    /\ segments[i].summary = candidates[i].summary

\* A run without refinement that returned two segments out of more than two
\* collected candidates, the first collected one ranking below the first
\* returned one.
C19_Witness ==
    /\ ~cfg.enable_vlm_refinement
    /\ pc = "done"
    /\ Len(p_candidates) > 2
    /\ Len(segments) = 2
    /\ p_candidates[1].confidence < segments[1].confidence


\* largest clip start and relative bound, in tenths of a second, for which
\* the conversion is compared with the sum
MaxClipSec == 6

\* start of the fetch window of candidate c: its start less buffer_ratio of
\* its duration, not below 0
FetchWindowStart(c) ==
    LET buffer_sec == ((c.time_range.end_sec - c.time_range.start_sec)
                          * cfg.buffer_ratio) \div 100
    IN IF c.time_range.start_sec - buffer_sec < 0 THEN 0
       ELSE c.time_range.start_sec - buffer_sec

\* C20: convert_relative_to_absolute(clip_start, TimeRange(a, b)) is
\* TimeRange(clip_start + a, clip_start + b) for clip_start >= 0 and
\* 0 <= a < b, and the range of a successfully refined segment is the video
\* model's relative range moved by the start of the buffered fetch window.
C20_RelativeToAbsolute ==
    /\ \A s \in 0..MaxClipSec, a \in 0..MaxClipSec :
          \A b \in (a + 1)..(MaxClipSec + 1) :
             LET r == convert_relative_to_absolute(s, TimeRange(a, b))
             IN /\ r.start_sec = s + a
                /\ r.end_sec = s + b
                /\ TimeRangeValid(r.start_sec, r.end_sec)
    /\ \A k \in 1..Len(tasks) :
          tasks[k].vlm_ok =>
             LET clip_start == FetchWindowStart(candidates[k])
                 rel        == tasks[k].vlm_answer.relative_range
             IN /\ tasks[k].segment.time_range.start_sec = clip_start + rel.start_sec
                /\ tasks[k].segment.time_range.end_sec = clip_start + rel.end_sec
                /\ pc = "done" => segments[k].time_range = tasks[k].segment.time_range

\* A returned segment that was refined for a candidate whose fetch window
\* starts after 0 and before the candidate's own start.
C20_Witness ==
    /\ pc = "done"
    /\ \E k \in 1..Len(tasks) :
          /\ tasks[k].vlm_ok
          /\ FetchWindowStart(candidates[k]) > 0
          /\ FetchWindowStart(candidates[k]) < candidates[k].time_range.start_sec
          /\ segments[k].time_range.start_sec
                < candidates[k].time_range.start_sec
                     + tasks[k].vlm_answer.relative_range.start_sec

----------------------------------------------------------------------------
\* C21: constructing a TimeRange fails exactly when start_sec < 0 or
\* end_sec <= start_sec; every TimeRange that was built has start_sec >= 0
\* and a strictly positive duration.
C21_TimeRangeValidation ==
    tr_call.state \in { "made", "buffered" } =>
        /\ tr_call.made.raised <=>
              (tr_call.start_sec < 0 \/ tr_call.end_sec <= tr_call.start_sec)
        /\ ~tr_call.made.raised =>
              /\ tr_call.made.value.start_sec >= 0
              /\ tr_call.made.value.end_sec - tr_call.made.value.start_sec > 0
        /\ (tr_call.state = "buffered" /\ ~tr_call.buffered.raised) =>
              /\ tr_call.buffered.value.start_sec >= 0
              /\ tr_call.buffered.value.end_sec
                     - tr_call.buffered.value.start_sec > 0

\* an empty range at a non-negative start was refused
C21_Witness ==
    /\ tr_call.state = "made"
    /\ tr_call.start_sec > 0
    /\ tr_call.end_sec = tr_call.start_sec
    /\ tr_call.made.raised

\* C22: for every TimeRange and every ratio r in (0, 1], with_buffer(r)
\* returns a valid TimeRange whose start is max(0, start - r * duration),
\* whose end is end + r * duration, whose duration is at least the original
\* one, and the original range is left as it was.
C22_WithBuffer ==
    tr_call.state = "buffered" =>
        LET t == tr_call.made.value
            d == t.end_sec - t.start_sec
            r == tr_call.buffer_ratio
        IN /\ ~tr_call.buffered.raised
           /\ LET b == tr_call.buffered.value
              IN /\ 100 * b.end_sec = 100 * t.end_sec + r * d
                 /\ (100 * t.start_sec >= r * d) =>
                        100 * b.start_sec = 100 * t.start_sec - r * d
                 /\ (100 * t.start_sec < r * d) => b.start_sec = 0
                 /\ b.end_sec - b.start_sec >= d
           /\ t.start_sec = tr_call.start_sec
           /\ t.end_sec = tr_call.end_sec

\* the buffer reached below zero and the start was clamped
C22_Witness ==
    /\ tr_call.state = "buffered"
    /\ ~tr_call.buffered.raised
    /\ tr_call.made.value.start_sec > 0
    /\ tr_call.buffered.value.start_sec = 0
    /\ 100 * tr_call.made.value.start_sec
          < tr_call.buffer_ratio * TimeRangeDuration(tr_call.made.value)

----------------------------------------------------------------------------
\* C23: once cancellation has been signalled to a running pipeline, no new
\* external call (search, transcript fetch, text model, video model, media
\* extractor) is started and no stagger or retry sleep is begun.
C23_NoCallAfterCancel ==
    [][ cancelled =>
          /\ calls' = calls
          /\ Len(tasks') = Len(tasks)
          /\ \A k \in 1..Len(tasks) :
                /\ tasks'[k].extract_calls = tasks[k].extract_calls
                /\ tasks'[k].vlm_calls = tasks[k].vlm_calls
                /\ tasks'[k].sleeps = tasks[k].sleeps ]_vars

----------------------------------------------------------------------------
\* The candidates the collecting loop gathers when no worker fails: the
\* results of all tasks, in submission order
RECURSIVE AllResults(_)
AllResults(fs) ==
    IF fs = << >> THEN << >>
    ELSE fs[1].result \o AllResults(Tail(fs))

FailedWorkers == { k \in 1..Len(futures) : futures[k].outcome \in { "raised", "timeout" } }

\* The collecting loop is over, exactly one worker failed (its result came
\* too late for future.result) and every task itself ran without an error
OneWorkerFailed(k) ==
    /\ pc = "transcript"
    /\ collect_idx > Len(futures)
    /\ FailedWorkers = { k }
    /\ futures[k].outcome = "timeout"
    /\ \A j \in 1..Len(futures) : futures[j].state = "done" /\ ~futures[j].raised

\* C24 (as claimed): for identical inputs, one failed worker task changes
\* the number of segments of the returned SearchResult by at most one
\* compared with the failure-free run.
C24_SingleFailureAtMostOne ==
    [][ \A k \in 1..Len(futures) :
          (OneWorkerFailed(k) /\ pc' # "transcript") =>
              LET free == Len(TopCandidates(AllResults(futures)))
              IN /\ free - Len(candidates') <= 1
                 /\ Len(candidates') - free <= 1
                 /\ pc' = "done" => Len(segments') = Len(candidates') ]_vars

\* C24 (amended): one failed transcript-stage task never raises the number
\* of segments and lowers it by at most the number of candidates that task
\* yields in the failure-free run; failed refinement tasks leave the number
\* of segments equal to the number of candidates.
C24_SingleFailureBounded ==
    [][ /\ \A k \in 1..Len(futures) :
             (OneWorkerFailed(k) /\ pc' # "transcript") =>
                 LET free == Len(TopCandidates(AllResults(futures)))
                 IN /\ Len(candidates') <= free
                    /\ free - Len(candidates') <= Len(futures[k].result)
                    /\ pc' = "done" => Len(segments') = Len(candidates')
        /\ (pc = "refine" /\ pc' = "done") => Len(segments') = Len(candidates) ]_vars

\* the failed worker would have yielded both segments of the result
C24_Witness ==
    \E k \in 1..Len(futures) :
        /\ OneWorkerFailed(k)
        /\ Len(futures[k].result) = 2
        /\ Len(TopCandidates(AllResults(futures))) = 2
        /\ TopCandidates(p_candidates) = << >>

----------------------------------------------------------------------------
ConfidenceNonIncreasing(s) ==
    \A i \in 1..Len(s), j \in 1..Len(s) : i < j => s[i].confidence >= s[j].confidence

\* C25 (as claimed): in every SearchResult returned by execute, with
\* refinement enabled or disabled, the segments are in non-increasing order
\* of confidence.
C25_SegmentsSortedByConfidence ==
    pc = "done" => ConfidenceNonIncreasing(segments)

\* C25 (amended): with refinement disabled the segments are in non-increasing
\* order of confidence; with refinement enabled they are in the order of the
\* candidates, which is non-increasing in the candidates' confidence.
C25_SortedAsCandidates ==
    pc = "done" =>
        /\ ConfidenceNonIncreasing(candidates)
        /\ Len(segments) = Len(candidates)
        /\ \A i \in 1..Len(segments) : segments[i].video = candidates[i].video
        /\ ~cfg.enable_vlm_refinement => ConfidenceNonIncreasing(segments)

\* an unrefined result of two segments with different confidences
C25_Witness ==
    /\ pc = "done"
    /\ ~cfg.enable_vlm_refinement
    /\ Len(segments) = 2
    /\ segments[1].confidence > segments[2].confidence
    /\ Len(p_candidates) >= 2
    /\ p_candidates[1].confidence < p_candidates[2].confidence

----------------------------------------------------------------------------
\* C26: every segment produced by a successful refinement has a time range
\* within [0, video.duration_sec] of its video (times are in tenths of a
\* second, durations in seconds).
C26_RefinedRangeWithinVideo ==
    \A k \in 1..Len(tasks) :
        tasks[k].vlm_ok =>
            /\ tasks[k].segment.time_range.start_sec >= 0
            /\ tasks[k].segment.time_range.end_sec <= 10 * duration_sec[tasks[k].video]

----------------------------------------------------------------------------
TaskOver(t) == t.state \in { "returned", "collected" }

C28_ClipSinkOnceBeforeDelete ==
    [][ \A k \in 1..Len(tasks) :
          k <= Len(tasks') =>
            LET t == tasks[k]
                u == tasks'[k]
            IN /\ (t.state = "finally" /\ u.state = "returned"
                      /\ t.clip_path # "none" /\ cfg.clip_save_callback) =>
                     /\ t.sink_calls = 0
                     /\ u.sink_calls = 1
                     /\ u.sink_saw = "exists"
                     /\ u.sink_video = t.video
                     /\ u.clip_path = "deleted"
                     /\ u.segment = t.segment
               /\ t.sink_calls > 0 =>
                     /\ u.sink_calls = t.sink_calls
                     /\ u.vlm_calls = t.vlm_calls
                     /\ u.segment = t.segment ]_vars

\* the sink raised for a refined task after a retried video-model call
C28_Witness ==
    \E k \in 1..Len(tasks) :
        /\ TaskOver(tasks[k])
        /\ tasks[k].vlm_ok
        /\ tasks[k].vlm_calls = 2
        /\ tasks[k].sink_calls = 1
        /\ tasks[k].sink_raised
        /\ tasks[k].sink_saw = "exists"
        /\ tasks[k].clip_path = "deleted"

----------------------------------------------------------------------------
\* a clip counts when it exists, has at least 1000 bytes and a video stream
CountedClips ==
    { i \in 1..Len(concat.clip_paths) :
         /\ concat.clip_paths[i].exists
         /\ concat.clip_paths[i].size >= 1000
         /\ concat.clip_paths[i].probe = "video" }

ConcatOver == concat.pc \in { "returned", "raised" }

\* C29: concat_clips decides by the number of valid input clips: with none
\* it returns failure and runs no concat tool, with exactly one it copies
\* that clip to the output path and runs no concat tool, with two or more it
\* writes a manifest of the valid clips in input order and runs the tool.
C29_ConcatByValidCount ==
    concat.pc \notin { "none", "start" } =>
        LET n == Cardinality(CountedClips)
        IN /\ n = 0 => /\ concat.pc = "returned"
                       /\ concat.result = "False"
                       /\ concat.tool_calls = << >>
                       /\ concat.output = NoOutput
           /\ n = 1 => /\ concat.pc = "returned"
                       /\ concat.result = "True"
                       /\ concat.tool_calls = << >>
                       /\ concat.output.kind = "copied"
                       /\ concat.output.src \in CountedClips
           /\ n >= 2 => /\ Len(concat.manifest_lines) = n
                        /\ Range(concat.manifest_lines) = CountedClips
                        /\ \A i \in 1..n, j \in 1..n :
                              i < j => concat.manifest_lines[i]
                                          < concat.manifest_lines[j]
                        /\ ConcatOver => Len(concat.tool_calls) >= 1

\* three files, the middle one without a video stream: the manifest lists
\* the first and the third
C29_Witness ==
    /\ ConcatOver
    /\ Len(concat.clip_paths) = 3
    /\ concat.clip_paths[2].exists
    /\ concat.clip_paths[2].probe = ""
    /\ concat.manifest_lines = << 1, 3 >>
    /\ concat.tool_calls # << >>

----------------------------------------------------------------------------
----------------------------------------------------------------------------
\* C32: execute runs its stages strictly in sequence: the search starts only
\* after the fan-out returned, the title filter only after the search
\* returned, no transcript fetch starts before the title filter returned, and
\* no extractor or video-model call starts before every transcript-stage
\* worker has finished, a worker whose result wait timed out included.
C32_StagesInSequence ==
    [][ /\ (call_idx' > call_idx) => (calls.fanout = 1 /\ calls.title = 0)
        /\ (calls'.title > calls.title) =>
              /\ calls.fanout = 1
              /\ queries = << >> /\ call_idx = 1 /\ all_videos = << >>
              /\ calls.fetch = 0
        /\ (calls'.fetch > calls.fetch) =>
              /\ calls.title = 1
              /\ title_answer = NoTitleAnswer /\ filtered_videos = << >>
              /\ tasks = << >>
        /\ (pc = "transcript" /\ pc' # "transcript") =>
              \A k \in 1..Len(futures) : futures[k].state = "done"
        /\ (tasks' # tasks /\ tasks' # << >>) =>
              /\ pc' = "refine"
              /\ futures' = << >>
              /\ calls'.fetch = calls.fetch ]_vars

\* a worker whose result wait timed out has finished, the loop is over and
\* the refinement stage comes next
C32_Witness ==
    /\ pc = "transcript"
    /\ collect_idx > Len(futures)
    /\ \E k \in 1..Len(futures) : futures[k].outcome = "timeout"
    /\ \A k \in 1..Len(futures) : futures[k].state = "done"
    /\ ShouldRefine(TopCandidates(p_candidates))

----------------------------------------------------------------------------
\* tasks a pool thread is occupied with
BusyVideoTasks(fs) == { k \in 1..Len(fs) : fs[k].state \notin { "queued", "done" } }

BusyCandidates(ts) ==
    { k \in 1..Len(ts) : ts[k].state \notin { "queued", "returned", "collected" } }

PoolsWithinLimits(fs, ts) ==
    /\ Cardinality(BusyVideoTasks(fs)) <= 5
    /\ Cardinality(BusyCandidates(ts)) <= 3
    /\ Cardinality(BusyCandidates(ts)) <= Len(ts)

\* C33: at every moment at most 5 transcript-stage tasks are running and at
\* most min(3, total) refinement tasks are admitted (waiting their stagger,
\* extracting, analyzing or backing off); a queued refinement task starts
\* only when fewer than min(3, total) are admitted, that is when an admitted
\* one has finished once the pool was full.
C33_PoolLimits ==
    [][ /\ PoolsWithinLimits(futures, tasks)
        /\ PoolsWithinLimits(futures', tasks')
        /\ \A k \in 1..Len(tasks) :
              (k <= Len(tasks') /\ tasks[k].state = "queued"
                  /\ tasks'[k].state # "queued") =>
                 /\ Cardinality(BusyCandidates(tasks)) < 3
                 /\ k > 3 => \E j \in 1..(k - 1) :
                                 tasks[j].state \in { "returned", "collected" } ]_vars

\* the fourth candidate was admitted after one of three had finished, while
\* the other two are still at work
C33_Witness ==
    /\ Len(tasks) >= 4
    /\ tasks[4].state \in { "extracting", "analyzing" }
    /\ Cardinality(BusyCandidates(tasks)) = 3

----------------------------------------------------------------------------
\* the pauses of task t so far according to the schedule, in tenths of a second
ScheduledSleeps(t) ==
    (IF t.index > 0 /\ t.state # "queued" THEN << t.index * 30 >> ELSE << >>)
       \o [ a \in 1..(t.vlm_calls - 1) |-> 20 * a ]

\* C34: the refinement task of index i waits i * 3 seconds after a worker
\* picked it up and before its extraction (index 0 does not wait), and
\* before video-model attempt k (k = 0, 1, 2) it waits 2 * k seconds; the
\* task has no other pause.
C34_DelaySchedule ==
    \A k \in 1..Len(tasks) :
        /\ tasks[k].sleeps = ScheduledSleeps(tasks[k])
        /\ tasks[k].extract_calls > 0 =>
              (tasks[k].index > 0 => tasks[k].sleeps[1] = tasks[k].index * 30)
        /\ tasks[k].vlm_calls <= 3

\* the third task after three video-model attempts: 6 s, then 2 s and 4 s
C34_Witness ==
    /\ Len(tasks) >= 3
    /\ tasks[3].index = 2
    /\ tasks[3].vlm_calls = 3
    /\ tasks[3].sleeps = << 60, 20, 40 >>

----------------------------------------------------------------------------
\* C35: during the transcript stage over N videos a progress event is
\* emitted each time the processed count reaches a multiple of 10 and when it
\* reaches N, whether the task that brought the count there succeeded or
\* failed.
C35_TranscriptProgressEvents ==
    [][ (pc = "transcript" /\ counters'.processed > counters.processed
           /\ (counters'.processed % 10 = 0
                  \/ counters'.processed = Len(futures))) =>
          /\ Len(events') = Len(events) + 1
          /\ events'[Len(events')] =
                Frac(25 * Len(futures) + 20 * counters'.processed,
                     100 * Len(futures)) ]_vars

----------------------------------------------------------------------------
(* Termination of the refinement stage *)

\* the moves of a task: queued, extracting (after the staggered wait),
\* analyzing, then the handler's exit through the finally clause
TaskPath ==
    { << "queued", "extracting" >>, << "extracting", "analyzing" >>,
      << "extracting", "finally" >>, << "analyzing", "finally" >>,
      << "finally", "returned" >>, << "returned", "collected" >> }

\* done: the video model answered; failed-degraded: the fallback segment
TaskDone(t) == TaskOver(t) /\ t.vlm_ok /\ t.segment # NoSegment
TaskFailedDegraded(t) ==
    TaskOver(t) /\ ~t.vlm_ok /\ t.segment = Degrade(t).segment

AllTasksTerminal ==
    \A k \in 1..Len(tasks) : TaskDone(tasks[k]) \/ TaskFailedDegraded(tasks[k])

\* C36: every refinement task moves along queued, staggered wait, extracting,
\* analyzing and then retries, is done or fails into a degraded segment; when
\* every extractor and video-model call returns or raises, every task
\* eventually is done or failed-degraded and _refine_with_vlm returns.
C36_RefinementTerminates ==
    /\ [][ \A k \in 1..Len(tasks) :
             \/ tasks'[k].state = tasks[k].state
                   /\ (tasks'[k] # tasks[k] =>
                          /\ tasks[k].state = "analyzing"
                          /\ tasks'[k].attempt = tasks[k].attempt + 1
                          /\ tasks'[k].attempt < max_retries)
             \/ << tasks[k].state, tasks'[k].state >> \in TaskPath ]_vars
    /\ <>AllTasksTerminal
    /\ <>(pc = "done" /\ Len(segments) = Len(tasks))

\* a stage with more tasks than workers has returned: one task was refined,
\* another one used up its retries and failed into its degraded segment
C36_Witness ==
    /\ pc = "done"
    /\ Len(tasks) > refine_pool_limit
    /\ \E k \in 1..Len(tasks) : TaskDone(tasks[k])
    /\ \E k \in 1..Len(tasks) :
         TaskFailedDegraded(tasks[k]) /\ tasks[k].attempt = max_retries - 1

----------------------------------------------------------------------------
(* Counters of the transcript stage *)

\* the collecting loop is over and the `with` block has shut the pool down:
\* _process_videos_parallel is about to return its candidates and counters
TranscriptStageOver ==
    pc = "transcript" /\ collect_idx > Len(futures) /\ ExecutorShutdown(futures)

ReturnedWith(fs)    == { k \in 1..Len(fs) : fs[k].outcome = "returned" /\ fs[k].result # << >> }
ReturnedEmpty(fs)   == { k \in 1..Len(fs) : fs[k].outcome = "returned" /\ fs[k].result = << >> }
FailedWait(fs)      == { k \in 1..Len(fs) : fs[k].outcome \in { "raised", "timeout" } }
RaisedSubtitle(fs)  == { k \in 1..Len(fs) : fs[k].outcome = "raised" /\ fs[k].msg_subtitle }

\* every video is counted in exactly one of success, no_match and errors, and
\* no_subtitle counts raised errors only
CountersPartition ==
    /\ counters.success = Cardinality(ReturnedWith(futures))
    /\ counters.no_match = Cardinality(ReturnedEmpty(futures))
    /\ counters.errors = Cardinality(FailedWait(futures))
    /\ counters.no_subtitle = Cardinality(RaisedSubtitle(futures))
    /\ counters.success + counters.no_match + counters.errors = Len(futures)
    /\ counters.processed = Len(futures)
    /\ counters.no_subtitle <= counters.errors

\* the transcript of video k was absent: fetch returned nothing and raised nothing
TranscriptAbsent(k) == futures[k].fetched = "none" /\ futures[k].outcome = "returned"

----------------------------------------------------------------------------
(* The candidate list does not depend on the completion order of the workers *)

\* what the waits on the first n futures returned, in the order of submission
RECURSIVE ConcatReturned(_, _)
ConcatReturned(fs, n) ==
    IF n = 0 THEN << >>
    ELSE ConcatReturned(fs, n - 1)
            \o (IF fs[n].outcome = "returned" THEN fs[n].result ELSE << >>)

\* position of p[j] when p is ordered by confidence, highest first, equal
\* confidences in the order they have in p
ConfidenceRank(p, j) ==
    Cardinality({ l \in 1..Len(p) :
                    \/ p[l].confidence > p[j].confidence
                    \/ p[l].confidence = p[j].confidence /\ l <= j })

RankedByConfidence(p) ==
    [ i \in 1..Len(p) |-> p[CHOOSE j \in 1..Len(p) : ConfidenceRank(p, j) = i] ]

\* C38: the candidate list of the transcript stage, the top-K selection and
\* its order, ties in confidence included, are a function of the per-video
\* results of the waits and of the order of the filtered videos alone; the
\* order in which the workers complete has no part in it.
C38_CandidatesIndependentOfCompletion ==
    [][ /\ pc' = "transcript" =>
              p_candidates' = ConcatReturned(futures', Len(futures'))
        /\ (pc = "transcript" /\ pc' # "transcript") =>
              candidates' = Take(RankedByConfidence(
                                    ConcatReturned(futures, Len(futures))),
                                 cfg.max_final_results) ]_vars

\* the stage kept two candidates of equal confidence from two videos out of
\* more than it had collected
C38_Witness ==
    /\ pc = "done"
    /\ counters.processed > transcript_max_workers
    /\ Len(candidates) = 2 /\ Len(p_candidates) > 2
    /\ candidates[1].confidence = candidates[2].confidence
    /\ candidates[1].video # candidates[2].video

----------------------------------------------------------------------------
(* The completion counter of the refinement stage *)

FracEq(a, b) == a[1] * b[2] = b[1] * a[2]

\* C39: over N candidates the completion counter is incremented exactly once
\* per task, whatever the interleaving of the workers: the per-task progress
\* events carry the counts 1, 2, ..., N each once and in increasing order,
\* and the last of them has progress 0.6 + 0.35 = 0.95.
C39_CompletionCounter ==
    [][ (pc = "refine" /\ pc' = "refine") =>
          LET N == Len(tasks)
              c == completed_count'
          IN /\ c = Cardinality({ k \in 1..N : Finished(tasks'[k]) })
             /\ c \in { completed_count, completed_count + 1 }
             /\ Len(events') - Len(events) = c - completed_count
             /\ Len(events') >= c
             /\ \A i \in 1..c :
                  events'[Len(events') - c + i] = Frac(60 * N + 35 * i, 100 * N)
             /\ (c = N /\ c # completed_count) =>
                  FracEq(events'[Len(events')], Frac(95, 100)) ]_vars

\* three workers have completed in an order that is not the task order, one
\* of them with a degraded segment; the third event is the 0.95 one
C39_Witness ==
    /\ pc = "refine"
    /\ Len(tasks) = 3 /\ completed_count = 3
    /\ results # << >> /\ results[1][1] # 0
    /\ \E k \in 1..3 : ~tasks[k].vlm_ok
    /\ FracEq(events[Len(events)], Frac(95, 100))

----------------------------------------------------------------------------
(* The subtitle sink *)

\* the subtitle of the video was fetched and find_relevant_ranges returned
SubtitleRanked(f) ==
    /\ f.state = "done" /\ ~f.raised
    /\ f.fetched = "subtitle" /\ f.rank_calls = 1 /\ f.urlfb_calls = 0

====
